---------------------------- MODULE Spec2Model ----------------------------
(***************************************************************************)
(* A model of rush-lib's bulk task scheduling:                             *)
(*   - TaskCollection (logic/taskRunner/TaskCollection.ts): registration   *)
(*     of tasks and dependency edges, the cyclic-dependency check, the     *)
(*     critical-path computation and the ordering of the build queue;      *)
(*   - BulkScriptAction.runAsync (cli/scriptActions/BulkScriptAction.ts):  *)
(*     registerTasks -> getOrderedTasks -> new TaskRunner -> executeAsync; *)
(*   - the TaskRunner, whose file is not among the sources: its            *)
(*     definitions follow section 4.F of the specification.                *)
(***************************************************************************)
EXTENDS Integers, Sequences, FiniteSets, TLC

(***************************************************************************)
(* Bounds and input domains                                                *)
(***************************************************************************)

\* Task (project) names, in lexicographic order.
NameOrder == <<"a", "b", "c", "d">>

Names == {NameOrder[i] : i \in DOMAIN NameOrder}

\* The names a caller of the collection draws from.
TaskNames == {"a", "b", "c"}

\* Position of a name in lexicographic order.
NameIndex(n) == CHOOSE i \in DOMAIN NameOrder : NameOrder[i] = n

\* Largest number of dependency edges of a collection.
MaxEdges == 4

\* Largest number of local-dependency edges of a project graph.
MaxProjectEdges == 4

\* os.cpus().length: the number of hardware threads of the machine.
NumberOfCores == 3

\* Longest dependency list handed to one addDependencies call.
MaxDepList == 2

(***************************************************************************)
(* Helpers on sequences and sets                                           *)
(***************************************************************************)

Range(s) == {s[i] : i \in DOMAIN s}

Contains(s, x) == \E i \in DOMAIN s : s[i] = x

\* Array.prototype.indexOf, 1-based; 0 when absent.
IndexOf(s, x) == IF Contains(s, x) THEN CHOOSE i \in DOMAIN s : s[i] = x /\ \A j \in 1..(i - 1) : s[j] # x ELSE 0

Reverse(s) == [i \in DOMAIN s |-> s[Len(s) + 1 - i]]

MaxOf(S) == CHOOSE m \in S : \A x \in S : x <= m

SeqsUpTo(S, n) == UNION {[1..k -> S] : k \in 0..n}

(***************************************************************************)
(* TaskStatus and Task                                                     *)
(***************************************************************************)

Ready == "Ready"
Executing == "Executing"
Success == "Success"
SuccessWithWarning == "SuccessWithWarning"
Skipped == "Skipped"
FromCache == "FromCache"
Failure == "Failure"
Blocked == "Blocked"

\* task.criticalPathLength = undefined
Undefined == -1

NoError == "none"
DuplicateTask == "A task with that name has already been registered."
UnknownTask == "The task has not been registered"
UnknownDependency == "The project has not been registered."
CyclicDependency == "A cyclic dependency was encountered"
LinkFlagInvalid == "Link flag invalid."
AlreadyReportedError == "AlreadyReportedError"
OtherError == "Error"

\* RushConstants.buildCommandName and RushConstants.rebuildCommandName.
BuiltInCommandNames == {"build", "rebuild"}

(***************************************************************************)
(* TaskCollection.  A collection is a record                               *)
(*   tasks               the keys of the _tasks Map, in insertion order    *)
(*   dependencies        task.dependencies, a Set                          *)
(*   dependents          task.dependents, a Set, in insertion order        *)
(*   status              task.status                                       *)
(*   criticalPathLength  task.criticalPathLength, or Undefined             *)
(* whose last four fields are functions over the registered names.         *)
(***************************************************************************)

NewTaskCollection ==
  [tasks |-> <<>>, dependencies |-> <<>>, dependents |-> <<>>,
   status |-> <<>>, criticalPathLength |-> <<>>]

hasTask(c, taskName) == Contains(c.tasks, taskName)

\* Set.prototype.add on an insertion-ordered set.
SetAdd(s, x) == IF Contains(s, x) THEN s ELSE Append(s, x)

\* Mutant of addTask: a name that is already registered is accepted and the
\* task is registered anew.
addTaskAgain(c, name) ==
  [collection |->
     [tasks |-> SetAdd(c.tasks, name),
      dependencies |-> (name :> {}) @@ c.dependencies,
      dependents |-> (name :> <<>>) @@ c.dependents,
      status |-> (name :> Ready) @@ c.status,
      criticalPathLength |-> (name :> Undefined) @@ c.criticalPathLength],
   error |-> NoError]

addTask(c, name) ==
  IF hasTask(c, name)
  THEN [collection |-> c, error |-> DuplicateTask]
  ELSE [collection |->
          [tasks |-> Append(c.tasks, name),
           dependencies |-> (name :> {}) @@ c.dependencies,
           dependents |-> (name :> <<>>) @@ c.dependents,
           status |-> (name :> Ready) @@ c.status,
           criticalPathLength |-> (name :> Undefined) @@ c.criticalPathLength],
        error |-> NoError]

\* Mutant of the for loop of addDependencies: the dependency is not told of
\* its new dependent.
RECURSIVE addDependenciesLoopOneSided(_, _, _)
addDependenciesLoopOneSided(c, taskName, rest) ==
  IF rest = <<>>
  THEN [collection |-> c, error |-> NoError]
  ELSE LET dependencyName == Head(rest) IN
       IF ~hasTask(c, dependencyName)
       THEN [collection |-> c, error |-> UnknownDependency]
       ELSE addDependenciesLoopOneSided(
              [c EXCEPT !.dependencies[taskName] = @ \cup {dependencyName}],
              taskName, Tail(rest))

\* One pass of the for loop of addDependencies over the rest of the list.
RECURSIVE addDependenciesLoop(_, _, _)
addDependenciesLoop(c, taskName, rest) ==
  IF rest = <<>>
  THEN [collection |-> c, error |-> NoError]
  ELSE LET dependencyName == Head(rest) IN
       IF ~hasTask(c, dependencyName)
       THEN [collection |-> c, error |-> UnknownDependency]
       ELSE addDependenciesLoop(
              [c EXCEPT !.dependencies[taskName] = @ \cup {dependencyName},
                        !.dependents[dependencyName] = SetAdd(@, taskName)],
              taskName, Tail(rest))

\* Mutant of addDependencies: a task that is not registered is registered by
\* the call.
addDependenciesImplicit(c, taskName, taskDependencies) ==
  addDependenciesLoop(IF hasTask(c, taskName) THEN c ELSE addTask(c, taskName).collection,
                      taskName, taskDependencies)

\* The guard on an undefined list (line 53) cannot fire for a string[] argument.
addDependencies(c, taskName, taskDependencies) ==
  IF ~hasTask(c, taskName)
  THEN [collection |-> c, error |-> UnknownTask]
  ELSE addDependenciesLoop(c, taskName, taskDependencies)

\* Mutant of _checkForCyclicDependencies: the revisit test looks at the set of
\* already checked projects instead of the active dependency chain.
RECURSIVE checkForCyclicDependenciesVisited(_, _, _, _)
checkForCyclicDependenciesVisited(c, tasks, dependencyChain, alreadyCheckedProjects) ==
  IF tasks = <<>>
  THEN [threw |-> FALSE, chain |-> <<>>, checked |-> alreadyCheckedProjects]
  ELSE LET task == Head(tasks) IN
       IF task \in alreadyCheckedProjects /\ dependencyChain # <<>>
       THEN [threw |-> TRUE, chain |-> Reverse(Append(dependencyChain, task)),
             checked |-> alreadyCheckedProjects]
       ELSE IF task \notin alreadyCheckedProjects
       THEN LET r == checkForCyclicDependenciesVisited(c, c.dependents[task],
                       Append(dependencyChain, task), alreadyCheckedProjects \cup {task})
            IN IF r.threw THEN r
               ELSE checkForCyclicDependenciesVisited(c, Tail(tasks), dependencyChain, r.checked)
       ELSE checkForCyclicDependenciesVisited(c, Tail(tasks), dependencyChain, alreadyCheckedProjects)

\* Mutant of _checkForCyclicDependencies: the chain is quoted in traversal
\* order, without the reverse() of line 100.
RECURSIVE checkForCyclicDependenciesUnreversed(_, _, _, _)
checkForCyclicDependenciesUnreversed(c, tasks, dependencyChain, alreadyCheckedProjects) ==
  IF tasks = <<>>
  THEN [threw |-> FALSE, chain |-> <<>>, checked |-> alreadyCheckedProjects]
  ELSE LET task == Head(tasks) IN
       IF IndexOf(dependencyChain, task) >= 1
       THEN [threw |-> TRUE, chain |-> Append(dependencyChain, task),
             checked |-> alreadyCheckedProjects]
       ELSE IF task \notin alreadyCheckedProjects
       THEN LET r == checkForCyclicDependenciesUnreversed(c, c.dependents[task],
                       Append(dependencyChain, task), alreadyCheckedProjects \cup {task})
            IN IF r.threw THEN r
               ELSE checkForCyclicDependenciesUnreversed(c, Tail(tasks), dependencyChain, r.checked)
       ELSE checkForCyclicDependenciesUnreversed(c, Tail(tasks), dependencyChain,
                                                 alreadyCheckedProjects)

\* _checkForCyclicDependencies: the for loop over `tasks`, with the chain and
\* the set of already checked projects; `chain` of the result is the reversed
\* chain quoted by the error.
RECURSIVE checkForCyclicDependencies(_, _, _, _)
checkForCyclicDependencies(c, tasks, dependencyChain, alreadyCheckedProjects) ==
  IF tasks = <<>>
  THEN [threw |-> FALSE, chain |-> <<>>, checked |-> alreadyCheckedProjects]
  ELSE LET task == Head(tasks) IN
       IF IndexOf(dependencyChain, task) >= 1
       THEN [threw |-> TRUE, chain |-> Reverse(Append(dependencyChain, task)),
             checked |-> alreadyCheckedProjects]
       ELSE IF task \notin alreadyCheckedProjects
       THEN LET r == checkForCyclicDependencies(c, c.dependents[task],
                       Append(dependencyChain, task), alreadyCheckedProjects \cup {task})
            IN IF r.threw THEN r
               ELSE checkForCyclicDependencies(c, Tail(tasks), dependencyChain, r.checked)
       ELSE checkForCyclicDependencies(c, Tail(tasks), dependencyChain, alreadyCheckedProjects)

\* _calculateCriticalPaths(task): the memoized recursion; the result is the
\* criticalPathLength field of every task after the call.
RECURSIVE calculateCriticalPaths(_, _, _)
RECURSIVE calculateCriticalPathsOfAll(_, _, _)

\* Mutant of _calculateCriticalPaths: the "+ 1" of line 136 is forgotten.
calculateCriticalPathsNoIncrement(c, cpl, task) ==
  IF cpl[task] # Undefined
  THEN cpl
  ELSE IF Len(c.dependents[task]) = 0
  THEN [cpl EXCEPT ![task] = 0]
  ELSE LET after == calculateCriticalPathsOfAll(c, cpl, c.dependents[task])
           depsLengths == {after[c.dependents[task][i]] : i \in DOMAIN c.dependents[task]}
       IN [after EXCEPT ![task] = MaxOf(depsLengths)]

calculateCriticalPaths(c, cpl, task) ==
  IF cpl[task] # Undefined
  THEN cpl
  ELSE IF Len(c.dependents[task]) = 0
  THEN [cpl EXCEPT ![task] = 0]
  ELSE LET after == calculateCriticalPathsOfAll(c, cpl, c.dependents[task])
           depsLengths == {after[c.dependents[task][i]] : i \in DOMAIN c.dependents[task]}
       IN [after EXCEPT ![task] = MaxOf(depsLengths) + 1]

\* forEach over a list of tasks, calling _calculateCriticalPaths on each.
calculateCriticalPathsOfAll(c, cpl, tasks) ==
  IF tasks = <<>>
  THEN cpl
  ELSE calculateCriticalPathsOfAll(c, calculateCriticalPaths(c, cpl, Head(tasks)), Tail(tasks))

\* Sort.sortBy(array, keySelector) of node-core-library: a stable sort by
\* ascending key.  Insertion of x behind every element whose key is <= its own.
RECURSIVE sortedInsert(_, _, _)
sortedInsert(sorted, x, key) ==
  IF sorted = <<>> THEN <<x>>
  ELSE IF key[Head(sorted)] <= key[x]
  THEN <<Head(sorted)>> \o sortedInsert(Tail(sorted), x, key)
  ELSE <<x>> \o sorted

RECURSIVE sortBy(_, _)
sortBy(array, key) ==
  IF array = <<>> THEN <<>>
  ELSE sortedInsert(sortBy(SubSeq(array, 1, Len(array) - 1), key), array[Len(array)], key)

\* Mutant of getOrderedTasks: the key selector forgets the minus sign, so the
\* queue is sorted by ascending critical-path length.
getOrderedTasksAscending(c) ==
  LET check == checkForCyclicDependencies(c, c.tasks, <<>>, {}) IN
  IF check.threw
  THEN [collection |-> c, error |-> CyclicDependency, chain |-> check.chain, buildQueue |-> <<>>]
  ELSE LET cpl == calculateCriticalPathsOfAll(c, c.criticalPathLength, c.tasks)
           key == [t \in DOMAIN cpl |-> cpl[t]]
       IN [collection |-> [c EXCEPT !.criticalPathLength = cpl],
           error |-> NoError, chain |-> <<>>,
           buildQueue |-> sortBy(c.tasks, key)]

\* Mutant of getOrderedTasks: the key selector also orders equal critical-path
\* lengths by task name.
getOrderedTasksByName(c) ==
  LET check == checkForCyclicDependencies(c, c.tasks, <<>>, {}) IN
  IF check.threw
  THEN [collection |-> c, error |-> CyclicDependency, chain |-> check.chain, buildQueue |-> <<>>]
  ELSE LET cpl == calculateCriticalPathsOfAll(c, c.criticalPathLength, c.tasks)
           key == [t \in DOMAIN cpl |-> NameIndex(t) - cpl[t] * (Len(NameOrder) + 1)]
       IN [collection |-> [c EXCEPT !.criticalPathLength = cpl],
           error |-> NoError, chain |-> <<>>,
           buildQueue |-> sortBy(c.tasks, key)]

\* Mutant of getOrderedTasks: the cycle check is left out and the tasks are
\* returned as they were registered.
getOrderedTasksUnchecked(c) ==
  [collection |-> [c EXCEPT !.criticalPathLength = [t \in DOMAIN c.criticalPathLength |-> 0]],
   error |-> NoError, chain |-> <<>>, buildQueue |-> c.tasks]

\* getOrderedTasks(): the cycle check, the critical paths, the sorted queue.
getOrderedTasks(c) ==
  LET check == checkForCyclicDependencies(c, c.tasks, <<>>, {}) IN
  IF check.threw
  THEN [collection |-> c, error |-> CyclicDependency, chain |-> check.chain, buildQueue |-> <<>>]
  ELSE LET cpl == calculateCriticalPathsOfAll(c, c.criticalPathLength, c.tasks)
           key == [t \in DOMAIN cpl |-> -cpl[t]]
       IN [collection |-> [c EXCEPT !.criticalPathLength = cpl],
           error |-> NoError, chain |-> <<>>,
           buildQueue |-> sortBy(c.tasks, key)]

(***************************************************************************)
(* TaskSelector (logic/TaskSelector.ts): registration of every project     *)
(***************************************************************************)

\* The elements of a set of names as a list, in name order.
RECURSIVE SortedSeq(_)
SortedSeq(S) ==
  IF S = {} THEN <<>>
  ELSE LET first == CHOOSE x \in S : \A y \in S : NameIndex(x) <= NameIndex(y)
       IN <<first>> \o SortedSeq(S \ {first})

\* _registerTask(project): nothing when the task is already registered.
registerTask(c, project) ==
  IF hasTask(c, project) THEN c ELSE addTask(c, project).collection

\* for (const rushProject of projects) this._registerTask(rushProject)
RECURSIVE registerEach(_, _)
registerEach(c, projects) ==
  IF projects = <<>> THEN c
  ELSE registerEach(registerTask(c, Head(projects)), Tail(projects))

\* for (const project of projects) addDependencies(name, localDependencyProjects)
RECURSIVE addDependenciesOfEach(_, _, _)
addDependenciesOfEach(c, projects, config) ==
  IF projects = <<>> THEN [collection |-> c, error |-> NoError]
  ELSE LET r == addDependencies(c, Head(projects),
                  SortedSeq(config.localDependencyProjects[Head(projects)]))
       IN IF r.error # NoError THEN r
          ELSE addDependenciesOfEach(r.collection, Tail(projects), config)

\* _registerAll()
registerAll(c, config, ignoreDependencyOrder) ==
  LET registered == registerEach(c, config.projects) IN
  IF ignoreDependencyOrder
  THEN [collection |-> registered, error |-> NoError]
  ELSE addDependenciesOfEach(registered, config.projects, config)

\* _collectAllDependencies(project, result): the project and its upstream
\* dependencies, depth first, into an insertion-ordered Map.
RECURSIVE collectAllDependencies(_, _, _)
RECURSIVE collectAllDependenciesOfEach(_, _, _)
collectAllDependencies(config, project, result) ==
  IF Contains(result, project) THEN result
  ELSE collectAllDependenciesOfEach(config,
         SortedSeq(config.localDependencyProjects[project]), Append(result, project))

collectAllDependenciesOfEach(config, projects, result) ==
  IF projects = <<>> THEN result
  ELSE collectAllDependenciesOfEach(config, Tail(projects),
         collectAllDependencies(config, Head(projects), result))

\* Mutant of _registerToProjects: only the named projects are registered,
\* without what they depend on.
registerToProjectsNamedOnly(c, config, toProjects, ignoreDependencyOrder) ==
  [collection |-> registerEach(c, toProjects), error |-> NoError]

\* _registerToProjects(toProjects)
registerToProjects(c, config, toProjects, ignoreDependencyOrder) ==
  LET dependencies == collectAllDependenciesOfEach(config, toProjects, <<>>)
      registered == registerEach(c, dependencies)
  IN IF ignoreDependencyOrder
     THEN [collection |-> registered, error |-> NoError]
     ELSE addDependenciesOfEach(registered, dependencies, config)

\* _getDependentGraph(): for every project the projects that depend on it, in
\* the order of rushConfiguration.projects.
getDependentGraph(config) ==
  [p \in Range(config.projects) |->
     SelectSeq(config.projects, LAMBDA q : p \in config.localDependencyProjects[q])]

\* _collectAllDependents(dependentList, project, result)
RECURSIVE collectAllDependents(_, _, _)
RECURSIVE collectAllDependentsOfEach(_, _, _)
collectAllDependents(dependentList, project, result) ==
  IF Contains(result, project) THEN result
  ELSE collectAllDependentsOfEach(dependentList, dependentList[project], Append(result, project))

collectAllDependentsOfEach(dependentList, projects, result) ==
  IF projects = <<>> THEN result
  ELSE collectAllDependentsOfEach(dependentList, Tail(projects),
         collectAllDependents(dependentList, Head(projects), result))

\* The second loop of _registerFromProjects: only dependencies that were
\* selected themselves become ordering relationships.
RECURSIVE addSelectedDependenciesOfEach(_, _, _, _)
addSelectedDependenciesOfEach(c, projects, config, selected) ==
  IF projects = <<>> THEN [collection |-> c, error |-> NoError]
  ELSE LET r == addDependencies(c, Head(projects),
                  SortedSeq(config.localDependencyProjects[Head(projects)] \cap selected))
       IN IF r.error # NoError THEN r
          ELSE addSelectedDependenciesOfEach(r.collection, Tail(projects), config, selected)

\* Mutant of _registerFromProjects: the ordering relationships are added
\* whatever ignoreDependencyOrder says.
registerFromProjectsAlwaysOrdered(c, config, fromProjects, ignoreDependencyOrder) ==
  LET dependents == collectAllDependentsOfEach(getDependentGraph(config), fromProjects, <<>>)
      registered == registerEach(c, dependents)
  IN addSelectedDependenciesOfEach(registered, dependents, config, Range(dependents))

\* _registerFromProjects(fromProjects)
registerFromProjects(c, config, fromProjects, ignoreDependencyOrder) ==
  LET dependents == collectAllDependentsOfEach(getDependentGraph(config), fromProjects, <<>>)
      registered == registerEach(c, dependents)
  IN IF ignoreDependencyOrder
     THEN [collection |-> registered, error |-> NoError]
     ELSE addSelectedDependenciesOfEach(registered, dependents, config, Range(dependents))

\* registerTasks(): the projects selected by --to, then those selected by
\* --from, or every project when neither is given.
registerTasks(c, config, a) ==
  LET to == IF a.toProjects # <<>>
            THEN registerToProjects(c, config, a.toProjects, a.ignoreDependencyOrder)
            ELSE [collection |-> c, error |-> NoError]
  IN IF to.error # NoError THEN to
     ELSE LET from == IF a.fromProjects # <<>>
                      THEN registerFromProjects(to.collection, config, a.fromProjects,
                                                a.ignoreDependencyOrder)
                      ELSE to
          IN IF from.error # NoError THEN from
             ELSE IF a.toProjects = <<>> /\ a.fromProjects = <<>>
                  THEN registerAll(from.collection, config, a.ignoreDependencyOrder)
                  ELSE from

(***************************************************************************)
(* BulkScriptAction.runAsync: the options handed to the TaskRunner         *)
(***************************************************************************)

\* The parallelism handed to the runner (lines 99-101): the value of the
\* --parallelism parameter when parallelism is enabled, '1' otherwise.
parallelismOf(a) ==
  IF a.enableParallelism THEN a.parallelismParameter ELSE "1"

\* Mutant of line 101: the parameter is used whether or not parallelism is enabled.
taskRunnerOptionsAlwaysParallel(a) ==
  [quietMode |-> ~a.verbose,
   parallelism |-> a.parallelismParameter,
   changedProjectsOnly |-> a.isIncrementalBuildAllowed /\ a.changedProjectsOnly,
   allowWarningsInSuccessfulBuild |-> a.allowWarningsInSuccessfulBuild]

\* Mutant of line 131: warnings are always allowed.
taskRunnerOptionsWarningsAllowed(a) ==
  [quietMode |-> ~a.verbose,
   parallelism |-> parallelismOf(a),
   changedProjectsOnly |-> a.isIncrementalBuildAllowed /\ a.changedProjectsOnly,
   allowWarningsInSuccessfulBuild |-> TRUE]

\* The options object of `new TaskRunner(...)` (lines 97-109, 127-132).
taskRunnerOptions(a) ==
  [quietMode |-> ~a.verbose,
   parallelism |-> parallelismOf(a),
   changedProjectsOnly |-> a.isIncrementalBuildAllowed /\ a.changedProjectsOnly,
   allowWarningsInSuccessfulBuild |-> a.allowWarningsInSuccessfulBuild]

(***************************************************************************)
(* TaskRunner (section 4.F of the specification)                           *)
(***************************************************************************)

SuccessLike == {Success, SuccessWithWarning, Skipped, FromCache}

TerminalStates == SuccessLike \cup {Failure, Blocked}

\* What a builder's pipeline hands back for a task that was started.
BuilderResults == {Success, SuccessWithWarning, Skipped, FromCache, Failure}

\* The decimal strings the --parallelism parameter is drawn from.
NumberStrings == <<"1", "2">>

\* Number(parallelism) for a decimal string.
NumberOf(p) == CHOOSE i \in DOMAIN NumberStrings : NumberStrings[i] = p

\* The size of the worker pool: 'max' and unset map to the number of
\* hardware threads, a positive integer to itself.
parseParallelism(p) ==
  IF p = "undefined" THEN NumberOfCores
  ELSE IF p = "max" THEN NumberOfCores
  ELSE NumberOf(p)

\* new TaskRunner(orderedTasks, options)
newTaskRunner(orderedTasks, options) ==
  [buildQueue |-> orderedTasks,
   parallelismOption |-> options.parallelism,
   parallelism |-> parseParallelism(options.parallelism),
   quietMode |-> options.quietMode,
   changedProjectsOnly |-> options.changedProjectsOnly,
   allowWarningsInSuccessfulBuild |-> options.allowWarningsInSuccessfulBuild,
   hasAnyFailures |-> FALSE,
   hasAnyWarnings |-> FALSE,
   currentActiveTasks |-> 0,
   started |-> {},
   builderResult |-> <<>>]

\* Mutant: a Ready task is launched whatever the state of its dependencies.
isLaunchableIgnoringDependencies(c, t) == c.status[t] = Ready

\* Mutant: only a dependency in state Success lets its dependents start.
isLaunchableAfterSuccessOnly(c, t) ==
  /\ c.status[t] = Ready
  /\ \A d \in c.dependencies[t] : c.status[d] = Success

\* Ready -> Executing is allowed when every dependency is success-like.
isLaunchable(c, t) ==
  /\ c.status[t] = Ready
  /\ \A d \in c.dependencies[t] : c.status[d] \in SuccessLike

\* Mutant: the frontier hands out its last launchable task.
getNextTaskLast(c, runner) ==
  IF \E i \in DOMAIN runner.buildQueue : isLaunchable(c, runner.buildQueue[i])
  THEN CHOOSE i \in DOMAIN runner.buildQueue :
         /\ isLaunchable(c, runner.buildQueue[i])
         /\ \A j \in (i + 1)..Len(runner.buildQueue) : ~isLaunchable(c, runner.buildQueue[j])
  ELSE 0

\* The next task of the frontier: the first launchable task of the queue,
\* which is ordered by descending critical-path length; 0 when there is none.
getNextTask(c, runner) ==
  IF \E i \in DOMAIN runner.buildQueue : isLaunchable(c, runner.buildQueue[i])
  THEN CHOOSE i \in DOMAIN runner.buildQueue :
         /\ isLaunchable(c, runner.buildQueue[i])
         /\ \A j \in 1..(i - 1) : ~isLaunchable(c, runner.buildQueue[j])
  ELSE 0

\* Mutant: the pool launches every launchable task, whatever the number of
\* tasks already executing.
RECURSIVE startAvailableTasksUnbounded(_)
startAvailableTasksUnbounded(s) ==
  LET next == getNextTask(s.collection, s.runner) IN
  IF next # 0
  THEN LET t == s.runner.buildQueue[next] IN
       startAvailableTasksUnbounded(
         [collection |-> [s.collection EXCEPT !.status[t] = Executing],
          runner |-> [s.runner EXCEPT !.currentActiveTasks = @ + 1,
                                      !.started = @ \cup {t}]])
  ELSE s

\* Mutant: nothing is launched once a task has failed.
RECURSIVE startAvailableTasksFailFast(_)
startAvailableTasksFailFast(s) ==
  LET next == getNextTask(s.collection, s.runner) IN
  IF s.runner.currentActiveTasks < s.runner.parallelism /\ next # 0 /\ ~s.runner.hasAnyFailures
  THEN LET t == s.runner.buildQueue[next] IN
       startAvailableTasksFailFast(
         [collection |-> [s.collection EXCEPT !.status[t] = Executing],
          runner |-> [s.runner EXCEPT !.currentActiveTasks = @ + 1,
                                      !.started = @ \cup {t}]])
  ELSE s

\* The worker pool pulls tasks from the frontier while a slot is free.
RECURSIVE startAvailableTasks(_)
startAvailableTasks(s) ==
  LET next == getNextTask(s.collection, s.runner) IN
  IF s.runner.currentActiveTasks < s.runner.parallelism /\ next # 0
  THEN LET t == s.runner.buildQueue[next] IN
       startAvailableTasks(
         [collection |-> [s.collection EXCEPT !.status[t] = Executing],
          runner |-> [s.runner EXCEPT !.currentActiveTasks = @ + 1,
                                      !.started = @ \cup {t}]])
  ELSE s

RECURSIVE markTaskAsBlocked(_, _)
RECURSIVE markEachAsBlocked(_, _)

\* Mutant: only the direct dependents of a failed task are blocked.
markTaskAsBlockedDirectOnly(c, t) ==
  IF c.status[t] = Ready THEN [c EXCEPT !.status[t] = Blocked] ELSE c

\* Ready -> Blocked for a dependent of a task that failed or is blocked; the
\* dependents of the blocked task are re-evaluated likewise.
markTaskAsBlocked(c, t) ==
  IF c.status[t] = Ready
  THEN markEachAsBlocked([c EXCEPT !.status[t] = Blocked], c.dependents[t])
  ELSE c

markEachAsBlocked(c, tasks) ==
  IF tasks = <<>> THEN c
  ELSE markEachAsBlocked(markTaskAsBlocked(c, Head(tasks)), Tail(tasks))

\* A task reaches the terminal state its builder reported; a failure blocks
\* its dependents; then the freed slot is handed to the frontier.
completeTask(s, t, result) ==
  LET runner == [s.runner EXCEPT
                   !.currentActiveTasks = @ - 1,
                   !.hasAnyFailures = @ \/ result = Failure,
                   !.hasAnyWarnings = @ \/ result = SuccessWithWarning,
                   !.builderResult = (t :> result) @@ @]
      marked == [s.collection EXCEPT !.status[t] = result]
      c == IF result = Failure THEN markEachAsBlocked(marked, marked.dependents[t]) ELSE marked
  IN startAvailableTasks([collection |-> c, runner |-> runner])

\* Mutant: the dependents of a rebuilt task lose the permission to skip
\* whatever the runner was given.
markDependentsAlways(allowed, c, runner, t, result) ==
  IF result \in {Success, SuccessWithWarning}
  THEN [d \in DOMAIN allowed |-> allowed[d] /\ ~Contains(c.dependents[t], d)]
  ELSE allowed

\* What the runner does to the builders of the dependents of a task that has
\* ended: after a Success or a SuccessWithWarning they lose the permission to
\* skip, unless the runner was given changedProjectsOnly.
markDependents(allowed, c, runner, t, result) ==
  IF result \in {Success, SuccessWithWarning} /\ ~runner.changedProjectsOnly
  THEN [d \in DOMAIN allowed |-> allowed[d] /\ ~Contains(c.dependents[t], d)]
  ELSE allowed

\* How executeAsync() ends once every task is terminal: it fails when a task
\* failed, or when a task had warnings and warnings are not allowed.
executeAsyncSucceeds(runner) ==
  /\ ~runner.hasAnyFailures
  /\ ~(runner.hasAnyWarnings /\ ~runner.allowWarningsInSuccessfulBuild)

(***************************************************************************)
(* ProjectBuilder (logic/taskRunner/ProjectBuilder.ts).                    *)
(* The state file of a project is a record [kind, files, arguments] whose  *)
(* kind is "absent", "unparsable" or "json"; an IProjectBuildDeps value is *)
(* a record [defined, files, arguments], `defined` false for undefined.    *)
(* The build cache (ProjectBuildCache) is not among the sources: it        *)
(* follows sections 4.C and 4.F of the specification.                      *)
(***************************************************************************)

\* Repository-relative paths of a project's files, and content hashes.
Paths == {"p", "q"}

Hashes == {"h1", "h2"}

\* The file-hash maps the change analyzer can produce for a project.
FileMaps == UNION {[S -> Hashes] : S \in SUBSET Paths}

EmptyScript == ""

\* The command strings of a project (TaskSelector._getScriptToRun).
Commands == {EmptyScript, "build", "build --production"}

NoDepsFile == [kind |-> "absent", files |-> <<>>, arguments |-> ""]

UnparsableDepsFile == [kind |-> "unparsable", files |-> <<>>, arguments |-> ""]

\* The file JsonFile.save(projectBuildDeps, currentDepsPath) leaves.
DepsFileOf(deps) == [kind |-> "json", files |-> deps.files, arguments |-> deps.arguments]

UndefinedDeps == [defined |-> FALSE, files |-> <<>>, arguments |-> ""]

\* Mutant of _areShallowEqual: the loop over object2 is missing.
areShallowEqualOneWay(object1, object2) ==
  \A n \in DOMAIN object1 : n \in DOMAIN object2 /\ object1[n] = object2[n]

areShallowEqual(object1, object2) ==
  /\ \A n \in DOMAIN object1 : n \in DOMAIN object2 /\ object1[n] = object2[n]
  /\ \A n \in DOMAIN object2 : n \in DOMAIN object1

\* Lines 176-193: the prior state, undefined when the file is absent or
\* cannot be parsed; a warning is written for a file that cannot be parsed.
loadLastProjectBuildDeps(depsFile) ==
  [deps |-> IF depsFile.kind = "json"
            THEN [defined |-> TRUE, files |-> depsFile.files, arguments |-> depsFile.arguments]
            ELSE UndefinedDeps,
   warned |-> depsFile.kind = "unparsable"]

\* Mutant of lines 195-217: an unavailable analyzer counts as "no files".
getProjectBuildDepsWithoutFiles(analyzer, commandToRun) ==
  [defined |-> TRUE,
   files |-> IF analyzer.available THEN analyzer.files ELSE <<>>,
   arguments |-> commandToRun]

\* Lines 195-217: the current state, undefined when the analyzer throws.
getProjectBuildDeps(analyzer, commandToRun) ==
  IF analyzer.available
  THEN [defined |-> TRUE, files |-> analyzer.files, arguments |-> commandToRun]
  ELSE UndefinedDeps

\* Lines 219-224.
isPackageUnchanged(lastProjectBuildDeps, projectBuildDeps) ==
  /\ lastProjectBuildDeps.defined
  /\ projectBuildDeps.defined
  /\ projectBuildDeps.arguments = lastProjectBuildDeps.arguments
  /\ areShallowEqual(projectBuildDeps.files, lastProjectBuildDeps.files)

\* _getProjectBuildCacheAsync: a cache exists for a project when a cache is
\* configured and the task is cacheable, that is, the analyzer was available.
hasProjectBuildCache(cacheConfigured, projectBuildDeps) ==
  cacheConfigured /\ projectBuildDeps.defined

\* Lines 234-238: which way the pipeline goes.
pipelineBranch(restoreFromCacheSuccess, packageUnchanged, incrementalBuildAllowed) ==
  IF restoreFromCacheSuccess THEN FromCache
  ELSE IF packageUnchanged /\ incrementalBuildAllowed THEN Skipped
  ELSE "Build"

\* Mutant of line 240: the prior state file is left in place.
deleteDepsFileSkipped(depsFile) == depsFile

\* Line 240: FileSystem.deleteFile(currentDepsPath).
deleteDepsFile(depsFile) == NoDepsFile

\* Mutant of line 247: the empty command is spawned like any other.
hasEmptyScriptNever(commandToRun) == FALSE

\* Line 247: !this._commandToRun
hasEmptyScript(commandToRun) == commandToRun = EmptyScript

\* How a write of the state file can end: completely, not at all (the call
\* throws), or part way (the call throws and leaves a truncated file).
WriteOutcomes == {"written", "failed", "truncated"}

\* JsonFile.save / JsonFile.saveAsync (lines 250, 306).
saveDepsFile(depsFile, projectBuildDeps, outcome) ==
  IF outcome = "written" THEN DepsFileOf(projectBuildDeps)
  ELSE IF outcome = "truncated" THEN UnparsableDepsFile
  ELSE depsFile

\* Lines 288-296: the status the 'close' handler resolves with; a non-zero
\* code rejects, which the runner reports as Failure.
statusOfClose(code, hasWarningOrError) ==
  IF code # 0 THEN Failure
  ELSE IF hasWarningOrError THEN SuccessWithWarning
  ELSE Success

\* Mutant of line 304: nothing is written after the command.
shouldWriteDepsNever(status, projectBuildDeps) == FALSE

\* Mutant of line 304: the state is written on every success-like status.
shouldWriteDepsOnWarning(status, projectBuildDeps) ==
  status \in {Success, SuccessWithWarning} /\ projectBuildDeps.defined

\* Line 304: status === TaskStatus.Success && projectBuildDeps
shouldWriteDeps(status, projectBuildDeps) ==
  status = Success /\ projectBuildDeps.defined

\* How tryWriteCacheEntryAsync can end: true, false, or undefined when the
\* project has no cache.
CacheWriteResults == {"true", "false", "undefined"}

\* Lines 321-325: the status once the state file and the cache entry are written.
statusAfterWrite(status, hasErrors, hasWarnings, cacheWriteSuccess) ==
  IF hasErrors THEN Failure
  ELSE IF cacheWriteSuccess = "false" \/ hasWarnings THEN SuccessWithWarning
  ELSE status

\* What is remembered of one call of executeAsync(): its inputs, the way it
\* went and the status it ended with ("none" while it has not ended,
\* "Interrupted" when the process was killed while the command ran).
NoRun ==
  [status |-> "none", analyzerAvailable |-> FALSE, incremental |-> FALSE,
   cacheConfigured |-> FALSE, commandToRun |-> EmptyScript, lastDepsFile |-> NoDepsFile,
   packageUnchanged |-> FALSE, restored |-> FALSE, spawned |-> FALSE,
   closed |-> FALSE, code |-> 0, stderr |-> FALSE,
   writeOutcome |-> "none", cacheWrite |-> "notAttempted"]

\* What is remembered of the call before the last one, when nothing was
\* edited between the two.
NoPreviousRun == [status |-> "none", analyzerAvailable |-> FALSE, stderr |-> FALSE]

\* The locals of _executeTaskAsync are gone when the call has ended.
endOfCall(b) ==
  [b EXCEPT !.pc = "idle",
            !.projectBuildDeps = UndefinedDeps,
            !.hasWarningOrError = FALSE,
            !.hasWarnings = FALSE,
            !.hasErrors = FALSE]

\* A ProjectBuilder with the project it builds: the options of the builder,
\* the files of the project, the state file, the locals of
\* _executeTaskAsync that outlive the spawn, and the history of its runs.
NewProjectBuilder ==
  [commandToRun |-> "build",
   isIncrementalBuildAllowed |-> TRUE,
   cacheConfigured |-> FALSE,
   files |-> <<>>,
   depsFile |-> NoDepsFile,
   pc |-> "idle",
   projectBuildDeps |-> UndefinedDeps,
   hasWarningOrError |-> FALSE,
   hasWarnings |-> FALSE,
   hasErrors |-> FALSE,
   run |-> NoRun,
   previous |-> NoPreviousRun,
   lastSuccessfulBuild |-> UndefinedDeps]

\* The builder of a specification that runs no ProjectBuilder.
NoProjectBuilder == [NewProjectBuilder EXCEPT !.pc = "none"]

\* executeAsync() up to the spawn of the command or, when nothing is
\* spawned, to its end (lines 105-269).  `analyzerAvailable` tells whether
\* getPackageDeps() returns, `restored` whether tryRestoreFromCacheAsync()
\* restores, `writeOutcome` how a write of the state file ends.
executeTaskStart(b, analyzerAvailable, restored, writeOutcome) ==
  LET last == loadLastProjectBuildDeps(b.depsFile)
      projectBuildDeps ==
        getProjectBuildDeps([available |-> analyzerAvailable, files |-> b.files], b.commandToRun)
      packageUnchanged == isPackageUnchanged(last.deps, projectBuildDeps)
      restoreFromCacheSuccess ==
        hasProjectBuildCache(b.cacheConfigured, projectBuildDeps) /\ restored
      branch == pipelineBranch(restoreFromCacheSuccess, packageUnchanged,
                               b.isIncrementalBuildAllowed)
      started ==
        [b EXCEPT !.projectBuildDeps = projectBuildDeps,
                  !.hasWarningOrError = FALSE,
                  !.hasWarnings = last.warned,
                  !.hasErrors = FALSE,
                  !.previous = [status |-> b.run.status,
                                analyzerAvailable |-> b.run.analyzerAvailable,
                                stderr |-> b.run.stderr],
                  !.run = [NoRun EXCEPT !.analyzerAvailable = analyzerAvailable,
                                        !.incremental = b.isIncrementalBuildAllowed,
                                        !.cacheConfigured = b.cacheConfigured,
                                        !.commandToRun = b.commandToRun,
                                        !.lastDepsFile = b.depsFile,
                                        !.packageUnchanged = packageUnchanged,
                                        !.restored = restoreFromCacheSuccess]]
  IN IF branch # "Build"
     THEN endOfCall([started EXCEPT !.run.status = branch])
     ELSE LET building == [started EXCEPT !.depsFile = deleteDepsFile(b.depsFile),
                                          !.lastSuccessfulBuild = UndefinedDeps]
          IN IF hasEmptyScript(b.commandToRun)
             THEN IF projectBuildDeps.defined
                  THEN endOfCall([building EXCEPT
                          !.depsFile = saveDepsFile(building.depsFile, projectBuildDeps, writeOutcome),
                          !.run.writeOutcome = writeOutcome,
                          !.run.status = IF writeOutcome = "written" THEN Success ELSE Failure,
                          !.lastSuccessfulBuild =
                            IF writeOutcome = "written" THEN projectBuildDeps ELSE UndefinedDeps])
                  ELSE endOfCall([building EXCEPT !.run.status = Success])
             ELSE [building EXCEPT !.pc = "spawned", !.run.spawned = TRUE]

\* The 'close' event of the spawned command and the rest of
\* _executeTaskAsync (lines 286-336).  `cacheWriteSuccess` is what
\* tryWriteCacheEntryAsync() resolves with.
closeTask(b, code, cacheWriteSuccess, writeOutcome) ==
  LET status == statusOfClose(code, b.hasWarningOrError)
      closed == [endOfCall(b) EXCEPT
                          !.run.closed = TRUE,
                          !.run.code = code,
                          !.run.stderr = b.hasWarningOrError]
  IN IF code = 0 /\ shouldWriteDeps(status, b.projectBuildDeps)
     THEN [closed EXCEPT
             !.depsFile = saveDepsFile(b.depsFile, b.projectBuildDeps, writeOutcome),
             !.run.writeOutcome = writeOutcome,
             !.run.cacheWrite = cacheWriteSuccess,
             !.run.status =
               IF writeOutcome # "written" THEN Failure
               ELSE statusAfterWrite(status, b.hasErrors, b.hasWarnings, cacheWriteSuccess),
             !.lastSuccessfulBuild =
               IF writeOutcome = "written" /\ ~b.hasErrors
               THEN b.projectBuildDeps ELSE UndefinedDeps]
     ELSE [closed EXCEPT !.run.status = status]

(***************************************************************************)
(* Inputs of a run                                                         *)
(***************************************************************************)

\* rushConfiguration.projects, in their configured (name) order.
Projects == NameOrder

ProjectEdgeCount(g) ==
  Cardinality({e \in Names \X Names : e[2] \in g[e[1]]})

\* A graph with a dependency cycle: some non-empty set of projects each of
\* which depends on a member of the set.
IsCyclicGraph(g) ==
  \E S \in (SUBSET Names) \ {{}} : \A x \in S : g[x] \cap S # {}

\* Every dependency of a project comes earlier in rushConfiguration.projects.
DependsOnEarlierOnly(g) ==
  \A x \in Names : \A y \in g[x] : NameIndex(y) < NameIndex(x)

\* The project graphs of a run, with a bounded number of edges: every cyclic
\* graph, and of the acyclic graphs those whose edges point to earlier
\* projects (every acyclic graph is one of these up to the project names).
ProjectGraphs ==
  {g \in [Names -> SUBSET Names] :
     /\ ProjectEdgeCount(g) <= MaxProjectEdges
     /\ IsCyclicGraph(g) \/ DependsOnEarlierOnly(g)}

\* The values of the --parallelism parameter.
ParallelismValues == {"undefined", "max"} \cup Range(NumberStrings)

NoConfiguration ==
  [projects |-> <<>>, localDependencyProjects |-> <<>>, lastLinkFlagValid |-> TRUE]

NoAction ==
  [enableParallelism |-> FALSE, parallelismParameter |-> "undefined",
   allowWarningsInSuccessfulBuild |-> FALSE, ignoreDependencyOrder |-> FALSE,
   isIncrementalBuildAllowed |-> FALSE, changedProjectsOnly |-> FALSE,
   verbose |-> FALSE, toProjects |-> <<>>, fromProjects |-> <<>>,
   actionName |-> "build"]

\* A parser without a telemetry sink.
NoTelemetry == [enabled |-> FALSE, log |-> <<>>]

NoTaskRunner == newTaskRunner(<<>>, taskRunnerOptions(NoAction))

(***************************************************************************)
(* The terminal pipeline of a task (ProjectBuilder._executeTaskAsync,      *)
(* lines 128-172) and the stream collator.  A text is a sequence of        *)
(* characters, a chunk a record [kind, text].  The transforms and the      *)
(* collator (@rushstack/terminal, @rushstack/stream-collator) are not      *)
(* among the sources: they follow section 4.E of the specification; the    *)
(* wiring of the pipeline and the places where it is closed are those of   *)
(* ProjectBuilder.ts.  Colors and the newlines of the operating system in  *)
(* the project log are left out.                                           *)
(***************************************************************************)

CR == "\r"

LF == "\n"

\* TerminalChunkKind.
Stdout == "O"

Stderr == "E"

NoWriter == "none"

\* TextRewriterTransform with normalizeNewlines: NewlineKind.Lf, on the text
\* of one chunk: CR LF becomes LF, also when the two characters come in two
\* chunks; a CR is held back until the next character is known.
RECURSIVE normalizeNewlines(_, _, _)
normalizeNewlines(pendingCr, text, out) ==
  IF text = <<>> THEN [pendingCr |-> pendingCr, text |-> out]
  ELSE LET c == Head(text) IN
       IF c = CR
       THEN normalizeNewlines(TRUE, Tail(text), IF pendingCr THEN Append(out, CR) ELSE out)
       ELSE IF c = LF
       THEN normalizeNewlines(FALSE, Tail(text), Append(out, LF))
       ELSE normalizeNewlines(FALSE, Tail(text),
                              IF pendingCr THEN out \o <<CR, c>> ELSE Append(out, c))

\* A stream collator without writers' output.
NewCollator(tasks) ==
  [activeWriter |-> NoWriter,
   bufferedChunks |-> [t \in tasks |-> <<>>],
   isOpen |-> [t \in tasks |-> TRUE],
   stream |-> <<>>]

\* The chunks of a writer in the human-facing stream.
streamChunks(w, chunks) ==
  [i \in DOMAIN chunks |-> [task |-> w, kind |-> chunks[i].kind, text |-> chunks[i].text]]

\* Mutant: the chunk of a writer goes to the stream at once, foreground or not.
collatorWriteChunkUnbuffered(c, w, chunk) ==
  [c EXCEPT !.stream = @ \o streamChunks(w, <<chunk>>)]

\* A writer hands a chunk to the collator: the foreground writer writes to
\* the human-facing stream, a writer becomes the foreground writer when
\* there is none, and the chunk of any other writer is buffered.
collatorWriteChunk(c, w, chunk) ==
  IF c.activeWriter = NoWriter
  THEN [c EXCEPT !.activeWriter = w,
                 !.stream = @ \o streamChunks(w, Append(c.bufferedChunks[w], chunk)),
                 !.bufferedChunks[w] = <<>>]
  ELSE IF c.activeWriter = w
  THEN [c EXCEPT !.stream = @ \o streamChunks(w, <<chunk>>)]
  ELSE [c EXCEPT !.bufferedChunks[w] = Append(@, chunk)]

\* The buffers of the closed writers are flushed, one writer after the other.
RECURSIVE flushClosedWriters(_, _)
flushClosedWriters(c, writers) ==
  IF writers = <<>> THEN c
  ELSE LET w == Head(writers) IN
       flushClosedWriters(
         IF ~c.isOpen[w]
         THEN [c EXCEPT !.stream = @ \o streamChunks(w, c.bufferedChunks[w]),
                        !.bufferedChunks[w] = <<>>]
         ELSE c,
         Tail(writers))

\* The foreground goes to the first open writer that has buffered chunks,
\* and its buffer is flushed.
activateNextWriter(c) ==
  LET waiting == {w \in DOMAIN c.isOpen : c.isOpen[w] /\ c.bufferedChunks[w] # <<>>} IN
  IF waiting = {} THEN c
  ELSE LET w == Head(SortedSeq(waiting)) IN
       [c EXCEPT !.activeWriter = w,
                 !.stream = @ \o streamChunks(w, c.bufferedChunks[w]),
                 !.bufferedChunks[w] = <<>>]

\* A writer is closed: its buffer is flushed and its foreground claim is
\* released.  The buffer of a writer that is closed while another writer is
\* the foreground writer is flushed when that writer is closed.
collatorClose(c, w) ==
  LET closed == [c EXCEPT !.isOpen[w] = FALSE] IN
  IF c.activeWriter \in {w, NoWriter}
  THEN activateNextWriter(
         flushClosedWriters([closed EXCEPT !.activeWriter = NoWriter],
                            SortedSeq(DOMAIN c.isOpen)))
  ELSE closed

\* DiscardStdoutTransform in front of the collated writer when quiet mode is
\* on (lines 157-163), mutant: the transform is there in both modes.
toCollatedWriterAlwaysQuiet(quietMode, c, w, chunk) ==
  IF chunk.kind = Stdout THEN c ELSE collatorWriteChunk(c, w, chunk)

\* The first destination of splitterTransform1 (lines 157-163): the collated
\* writer, behind a DiscardStdoutTransform when quiet mode is on.
toCollatedWriter(quietMode, c, w, chunk) ==
  IF quietMode /\ chunk.kind = Stdout THEN c ELSE collatorWriteChunk(c, w, chunk)

\* The pipelines of the tasks: for each task the position of its builder,
\* the chunks it wrote, the state of its normalizeNewlineTransform, the
\* chunks that reached the project log and the summarizer, and whether the
\* project log is open; and the collator.
NewOutput(tasks, quietMode) ==
  [quietMode |-> quietMode,
   pc |-> [t \in tasks |-> "executing"],
   written |-> [t \in tasks |-> <<>>],
   pendingCr |-> [t \in tasks |-> FALSE],
   incompleteLine |-> [t \in tasks |-> FALSE],
   transformIsOpen |-> [t \in tasks |-> TRUE],
   transcript |-> [t \in tasks |-> <<>>],
   projectLogIsOpen |-> [t \in tasks |-> TRUE],
   collator |-> NewCollator(tasks)]

NoOutput == NewOutput({}, FALSE)

\* A chunk that leaves normalizeNewlineTransform goes to the two
\* destinations of splitterTransform1 (lines 147-163): the collated writer,
\* and through stderrLineTransform and splitterTransform2 the project log
\* and the summarizer.
forwardChunk(o, t, kind, text) ==
  [o EXCEPT
     !.collator = toCollatedWriter(o.quietMode, @, t, [kind |-> kind, text |-> text]),
     !.transcript[t] = Append(@, [kind |-> kind, text |-> text]),
     !.incompleteLine[t] = IF text = <<>> THEN @ ELSE text[Len(text)] # LF]

\* collatedTerminal.writeChunk(chunk) (lines 165-172, 274-284): the chunk
\* enters normalizeNewlineTransform.
writeChunk(o, t, chunk) ==
  LET n == normalizeNewlines(o.pendingCr[t], chunk.text, <<>>)
      written == [o EXCEPT !.written[t] = Append(@, chunk),
                           !.pendingCr[t] = n.pendingCr]
  IN forwardChunk(written, t, chunk.kind, n.text)

\* projectLogWritable.close() (line 340).
closeProjectLog(o, t) == [o EXCEPT !.projectLogIsOpen[t] = FALSE]

\* normalizeNewlineTransform.close() (line 328): the CR held back is written,
\* a newline is added to an incomplete last line (ensureNewlineAtEnd), and
\* the destinations are closed in turn: the collated writer and the project
\* log.
closeTransform(o, t) ==
  LET flushed == IF o.pendingCr[t]
                 THEN forwardChunk([o EXCEPT !.pendingCr[t] = FALSE], t, Stdout, <<CR>>)
                 ELSE o
      ended == IF flushed.incompleteLine[t]
               THEN forwardChunk(flushed, t, Stdout, <<LF>>)
               ELSE flushed
  IN closeProjectLog([ended EXCEPT !.transformIsOpen[t] = FALSE,
                                   !.collator = collatorClose(@, t)], t)

\* The ways through _executeTaskAsync (lines 234-341): the three early
\* returns, the return after the command was closed with exit code zero,
\* the rejection for another exit code, and an exception.
EmptyCommand == "EmptyCommand"
NonZeroExit == "NonZeroExit"
Exception == "Exception"

PipelinePaths == {FromCache, Skipped, EmptyCommand, "CommandClosed", NonZeroExit, Exception}

\* The end of _executeTaskAsync on one of its paths: the transform is closed
\* on the path through line 328 only, the project log on every path
\* (finally, line 340).
endOfPipeline(o, t, path) ==
  LET closed == IF path = "CommandClosed" THEN closeTransform(o, t) ELSE o
  IN [closeProjectLog(closed, t) EXCEPT !.pc[t] = path]

(***************************************************************************)
(* FileSystem (node-core-library): hard links                              *)
(***************************************************************************)

\* AlreadyExistsBehavior (lines 153-169); the option may be left out.
Overwrite == "overwrite"
Error == "error"
Ignore == "ignore"
Unspecified == "undefined"
AlreadyExistsBehavior == {Overwrite, Error, Ignore, Unspecified}

\* The error codes of fs.linkSync().
EEXIST == "EEXIST"
ENOENT == "ENOENT"

\* A path is a folder and a name; nodeJsPath.dirname() gives the folder.
LinkFolders == {"d", "e"}
LinkPaths == {<<"d", "p">>, <<"d", "q">>, <<"e", "r">>}
dirname(path) == path[1]

\* The file at a path is known by its inode; NoInode where there is none.
NoInode == 0
MaxInode == 2

NoCall == [error |-> NoError]

\* FileSystem.exists(path).
exists(fs, path) == fs.inode[path] # NoInode

\* fsx.linkSync(existingPath, newPath).
linkSync(fs, existingPath, newPath) ==
  IF fs.inode[existingPath] = NoInode \/ dirname(newPath) \notin fs.folders
  THEN [fs |-> fs, error |-> ENOENT]
  ELSE IF fs.inode[newPath] # NoInode
  THEN [fs |-> fs, error |-> EEXIST]
  ELSE [fs |-> [fs EXCEPT !.inode[newPath] = fs.inode[existingPath]],
        error |-> NoError]

\* FileSystem.isNotExistError(error) (lines 1324-1340).
isNotExistError(error) == error = ENOENT

\* FileSystem.deleteFile(filePath): a file that does not exist is no error
\* (lines 1083-1098).
deleteFile(fs, filePath) == [fs EXCEPT !.inode[filePath] = NoInode]

\* FileSystem.ensureFolder(folderPath).
ensureFolder(fs, folderPath) == [fs EXCEPT !.folders = @ \cup {folderPath}]

\* FileSystem.createHardLink(options) (lines 1236-1263): the file system
\* after the call and the error it threw.
RECURSIVE createHardLink(_, _)
createHardLink(fs, options) ==
  LET linked == linkSync(fs, options.linkTargetPath, options.newLinkPath)
  IN IF linked.error = NoError THEN linked
     ELSE IF linked.error = EEXIST
     THEN CASE options.alreadyExistsBehavior = Ignore ->
                 [fs |-> fs, error |-> NoError]
            [] options.alreadyExistsBehavior = Overwrite ->
                 [fs |-> deleteFile(fs, options.newLinkPath), error |-> NoError]
            [] OTHER -> linked
     ELSE IF isNotExistError(linked.error) /\ exists(fs, options.linkTargetPath)
     THEN createHardLink(ensureFolder(fs, dirname(options.newLinkPath)), options)
     ELSE linked

\* FileSystem.createHardLinkAsync(options) (lines 1268-1295): the same
\* steps, awaited.
createHardLinkAsync(fs, options) == createHardLink(fs, options)

\* IFileSystemCreateLinkOptions (lines 270-285).
CreateLinkOptions ==
  [linkTargetPath : LinkPaths, newLinkPath : LinkPaths,
   alreadyExistsBehavior : AlreadyExistsBehavior]

\* The file systems: a file is in a folder that exists.
FileSystems ==
  {fs \in [folders : SUBSET LinkFolders, inode : [LinkPaths -> 0..MaxInode]] :
     \A path \in LinkPaths : fs.inode[path] # NoInode => dirname(path) \in fs.folders}

NoFileSystem ==
  [folders |-> {}, inode |-> [path \in LinkPaths |-> NoInode], call |-> NoCall]

(***************************************************************************)
(* EnvironmentConfiguration (rush-lib api)                                 *)
(***************************************************************************)

\* A variable that is not set, a field that is undefined.
Unset == "undefined"

\* EnvironmentVariableNames (lines 24-111): the variables initialize() reads,
\* one of those left to the front end, and one it does not know.
EnvironmentVariableNames ==
  {"RUSH_TEMP_FOLDER", "RUSH_ABSOLUTE_SYMLINKS", "RUSH_ALLOW_UNSUPPORTED_NODEJS",
   "RUSH_PNPM_STORE_PATH", "RUSH_GLOBAL_FOLDER", "RUSH_BUILD_CACHE_WRITE_CREDENTIAL",
   "RUSH_GIT_BINARY_PATH", "RUSH_PARALLELISM"}
UnknownVariableName == "RUSH_UNKNOWN"

\* The values a variable is set to.
EnvironmentValues == {"true", "c:/t"}

\* At most this many variables are set in an environment.
MaxVariables == 2

\* process.env.
ProcessEnvs ==
  LET names == EnvironmentVariableNames \cup {UnknownVariableName} IN
  UNION {{[name \in names |-> IF name \in S THEN f[name] ELSE Unset] :
            f \in [S -> EnvironmentValues]} :
         S \in {S \in SUBSET names : Cardinality(S) <= MaxVariables}}

\* _normalizeDeepestParentFolderPath(folderPath) (lines 332-363): the path
\* with the casing of its deepest existing parent folder, undefined when no
\* parent exists.  The folder C:/ exists.
normalizeDeepestParentFolderPath(folderPath) ==
  IF folderPath = "c:/t" THEN "C:/t" ELSE Unset

\* value && !options.doNotNormalizePaths
\*   ? _normalizeDeepestParentFolderPath(value) || value : value
normalizedPath(value, options) ==
  IF value # Unset /\ ~options.doNotNormalizePaths
  THEN IF normalizeDeepestParentFolderPath(value) # Unset
       THEN normalizeDeepestParentFolderPath(value)
       ELSE value
  ELSE value

\* _getRushGlobalFolderOverride(processEnv) (lines 208-216).
getRushGlobalFolderOverride(processEnv) ==
  IF processEnv["RUSH_GLOBAL_FOLDER"] # Unset
  THEN normalizeDeepestParentFolderPath(processEnv["RUSH_GLOBAL_FOLDER"])
  ELSE Unset

\* The static fields of the class (lines 122-136), with the environment and
\* the outcome of the last call of initialize() or reset().
NewEnvironmentConfiguration ==
  [hasBeenInitialized |-> FALSE,
   rushTempFolderOverride |-> Unset,
   absoluteSymlinks |-> FALSE,
   allowUnsupportedNodeVersion |-> FALSE,
   pnpmStorePathOverride |-> Unset,
   rushGlobalFolderOverride |-> Unset,
   buildCacheCredential |-> Unset,
   gitBinaryPath |-> Unset,
   lastCall |-> "none",
   threw |-> FALSE,
   processEnv |-> [name \in EnvironmentVariableNames \cup {UnknownVariableName} |-> Unset],
   options |-> [doNotNormalizePaths |-> FALSE]]

\* reset() (lines 306-310).
reset(ec) ==
  [ec EXCEPT !.rushTempFolderOverride = Unset,
             !.hasBeenInitialized = FALSE]

\* initialize(options) (lines 222-301): the fields of the variables that
\* are set are assigned; an unknown RUSH_ variable makes the call throw
\* after the loop.
initialize(ec, processEnv, options) ==
  LET isSet(name) == processEnv[name] # Unset
      start == reset(ec)
      assigned ==
        [start EXCEPT
           !.rushTempFolderOverride =
              IF isSet("RUSH_TEMP_FOLDER")
              THEN normalizedPath(processEnv["RUSH_TEMP_FOLDER"], options) ELSE @,
           !.absoluteSymlinks =
              IF isSet("RUSH_ABSOLUTE_SYMLINKS")
              THEN processEnv["RUSH_ABSOLUTE_SYMLINKS"] = "true" ELSE @,
           !.allowUnsupportedNodeVersion =
              IF isSet("RUSH_ALLOW_UNSUPPORTED_NODEJS")
              THEN processEnv["RUSH_ALLOW_UNSUPPORTED_NODEJS"] = "true" ELSE @,
           !.pnpmStorePathOverride =
              IF isSet("RUSH_PNPM_STORE_PATH")
              THEN normalizedPath(processEnv["RUSH_PNPM_STORE_PATH"], options) ELSE @,
           !.buildCacheCredential =
              IF isSet("RUSH_BUILD_CACHE_WRITE_CREDENTIAL")
              THEN processEnv["RUSH_BUILD_CACHE_WRITE_CREDENTIAL"] ELSE @,
           !.gitBinaryPath =
              IF isSet("RUSH_GIT_BINARY_PATH")
              THEN processEnv["RUSH_GIT_BINARY_PATH"] ELSE @,
           !.lastCall = "initialize",
           !.processEnv = processEnv,
           !.options = options]
  IN IF isSet(UnknownVariableName)
     THEN [assigned EXCEPT !.threw = TRUE]
     ELSE [assigned EXCEPT
             !.rushGlobalFolderOverride = getRushGlobalFolderOverride(processEnv),
             !.hasBeenInitialized = TRUE,
             !.threw = FALSE]

\* The getters (lines 141-201): _ensureInitialized() throws when the class
\* is not initialized.
Getters ==
  {"rushTempFolderOverride", "absoluteSymlinks", "allowUnsupportedNodeVersion",
   "pnpmStorePathOverride", "rushGlobalFolderOverride", "buildCacheWriteCredential",
   "gitBinaryPath"}

get(ec, getter) ==
  IF ~ec.hasBeenInitialized
  THEN [threw |-> TRUE, value |-> Unset]
  ELSE [threw |-> FALSE,
        value |-> CASE getter = "rushTempFolderOverride" -> ec.rushTempFolderOverride
                    [] getter = "absoluteSymlinks" -> ec.absoluteSymlinks
                    [] getter = "allowUnsupportedNodeVersion" -> ec.allowUnsupportedNodeVersion
                    [] getter = "pnpmStorePathOverride" -> ec.pnpmStorePathOverride
                    [] getter = "rushGlobalFolderOverride" -> ec.rushGlobalFolderOverride
                    [] getter = "buildCacheWriteCredential" -> ec.buildCacheCredential
                    [] getter = "gitBinaryPath" -> ec.gitBinaryPath]

(***************************************************************************)
(* State                                                                   *)
(***************************************************************************)

VARIABLES
  taskCollection,     \* the TaskCollection
  phase,              \* "building", "ordered", "failed" (collection lifecycle);
                      \* "idle", "running", "done", "failed" (runAsync)
  thrown,             \* the error thrown by the last call, or NoError
  cycleChain,         \* the chain quoted by the cyclic-dependency error
  buildQueue,         \* the list returned by getOrderedTasks()
  rushConfiguration,  \* the projects and their localDependencyProjects
  action,             \* the BulkScriptAction: its options and parameter values
  taskRunner,         \* the TaskRunner
  runResult,          \* how runAsync() ended: "pending", "success", "failure"
  projectBuilder,     \* a ProjectBuilder, its project and its state file
  isIncrementalBuildAllowed,  \* task.builder.isIncrementalBuildAllowed of each task
  telemetry,          \* parser.telemetry: whether there is a sink, and its log
  afterTaskCalls,     \* the `success` argument of each call of _doAfterTask()
  output,             \* the terminal pipelines of the tasks and the stream collator
  fileSystem,         \* the objects at the paths of a FileSystem call
  environmentConfiguration  \* the static fields of EnvironmentConfiguration

vars == <<taskCollection, phase, thrown, cycleChain, buildQueue,
          rushConfiguration, action, taskRunner, runResult, projectBuilder,
          isIncrementalBuildAllowed, telemetry, afterTaskCalls,
          output, fileSystem, environmentConfiguration>>

afterTaskVars == <<telemetry, afterTaskCalls>>

libraryVars == <<output, fileSystem, environmentConfiguration>>

runVars == <<rushConfiguration, action, taskRunner, runResult, projectBuilder,
             isIncrementalBuildAllowed, afterTaskVars, libraryVars>>

collectionVars == <<taskCollection, phase, thrown, cycleChain, buildQueue>>

EdgeCount(c) == LET n[S \in SUBSET Range(c.tasks)] ==
                      IF S = {} THEN 0
                      ELSE LET t == CHOOSE x \in S : TRUE
                           IN Cardinality(c.dependencies[t]) + n[S \ {t}]
                IN n[Range(c.tasks)]

(***************************************************************************)
(* Specification of the collection: a caller registers tasks and           *)
(* dependencies, then asks once for the ordered tasks (the collection is   *)
(* built once, then frozen: BulkScriptAction.runAsync, lines 124-127).     *)
(***************************************************************************)

Init ==
  /\ taskCollection = NewTaskCollection
  /\ phase = "building"
  /\ thrown = NoError
  /\ cycleChain = <<>>
  /\ buildQueue = <<>>
  /\ rushConfiguration = NoConfiguration
  /\ action = NoAction
  /\ taskRunner = NoTaskRunner
  /\ runResult = "pending"
  /\ projectBuilder = NoProjectBuilder
  /\ isIncrementalBuildAllowed = <<>>
  /\ telemetry = NoTelemetry
  /\ afterTaskCalls = <<>>
  /\ output = NoOutput
  /\ fileSystem = NoFileSystem
  /\ environmentConfiguration = NewEnvironmentConfiguration

AddTask(name) ==
  /\ phase = "building"
  /\ LET r == addTask(taskCollection, name) IN
       /\ taskCollection' = r.collection
       /\ thrown' = r.error
  /\ UNCHANGED <<phase, cycleChain, buildQueue, runVars>>

AddDependencies(taskName, taskDependencies) ==
  /\ phase = "building"
  /\ LET r == addDependencies(taskCollection, taskName, taskDependencies) IN
       /\ EdgeCount(r.collection) <= MaxEdges
       /\ taskCollection' = r.collection
       /\ thrown' = r.error
  /\ UNCHANGED <<phase, cycleChain, buildQueue, runVars>>

GetOrderedTasks ==
  /\ phase = "building"
  /\ LET r == getOrderedTasks(taskCollection) IN
       /\ taskCollection' = r.collection
       /\ thrown' = r.error
       /\ cycleChain' = r.chain
       /\ buildQueue' = r.buildQueue
       /\ phase' = IF r.error = NoError THEN "ordered" ELSE "failed"
  /\ UNCHANGED runVars

Next ==
  \/ \E name \in TaskNames : AddTask(name)
  \/ \E taskName \in TaskNames : \E taskDependencies \in SeqsUpTo(TaskNames, MaxDepList) :
       AddDependencies(taskName, taskDependencies)
  \/ GetOrderedTasks

Spec == Init /\ [][Next]_vars

(***************************************************************************)
(* Specification of a run of a bulk command: BulkScriptAction.runAsync     *)
(* registers the tasks of every project, orders them, constructs the       *)
(* TaskRunner and awaits executeAsync(); each started builder completes    *)
(* with one of its results.                                                *)
(***************************************************************************)

RunInit ==
  /\ taskCollection = NewTaskCollection
  /\ phase = "idle"
  /\ thrown = NoError
  /\ cycleChain = <<>>
  /\ buildQueue = <<>>
  /\ \E g \in ProjectGraphs :
       rushConfiguration = [projects |-> Projects, localDependencyProjects |-> g,
                            lastLinkFlagValid |-> TRUE]
  /\ \E enable \in BOOLEAN, allow \in BOOLEAN :
       \E value \in (IF enable THEN ParallelismValues ELSE {"undefined"}) :
         action = [NoAction EXCEPT !.enableParallelism = enable,
                                   !.parallelismParameter = value,
                                   !.allowWarningsInSuccessfulBuild = allow]
  /\ taskRunner = NoTaskRunner
  /\ runResult = "pending"
  /\ projectBuilder = NoProjectBuilder
  /\ isIncrementalBuildAllowed = <<>>
  /\ telemetry = NoTelemetry
  /\ afterTaskCalls = <<>>
  /\ output = NoOutput
  /\ fileSystem = NoFileSystem
  /\ environmentConfiguration = NewEnvironmentConfiguration

\* The rest of runAsync() once executeAsync() has settled (lines 134-160):
\* it returns when executeAsync() succeeded and throws AlreadyReportedError
\* when it failed.
runAsyncResult(runner) ==
  IF executeAsyncSucceeds(runner) THEN "success" ELSE "failure"

\* The kinds of error executeAsync() can fail with.
ExecuteAsyncErrors == {AlreadyReportedError, OtherError}

\* What runAsync() throws for an error of executeAsync() (lines 141-160):
\* AlreadyReportedError, whatever was caught.
runAsyncError(error) == AlreadyReportedError

\* _collectTelemetry (lines 287-312): one record in the sink, when there is
\* a sink.  The duration of the stopwatch is left out.
collectTelemetry(a, tel, success) ==
  IF tel.enabled
  THEN [tel EXCEPT !.log = Append(@, [name |-> a.actionName,
                                      result |-> IF success THEN "Succeeded" ELSE "Failed"])]
  ELSE tel

\* _doAfterTask (lines 274-285): telemetry is collected for the built-in
\* commands only.
doAfterTask(a, tel, success) ==
  IF a.actionName \notin BuiltInCommandNames THEN tel
  ELSE collectTelemetry(a, tel, success)

\* Mutant of lines 134-160: the after-task step is taken after a success only.
afterTaskCallsOnSuccessOnly(calls, settled, runner) ==
  IF settled /\ executeAsyncSucceeds(runner)
  THEN Append(calls, TRUE)
  ELSE calls

\* Lines 134-160: one call of _doAfterTask() once executeAsync() has settled,
\* with `true` from the try block and with `false` from the catch block.
afterTaskCallsOf(calls, settled, runner) ==
  IF settled THEN Append(calls, executeAsyncSucceeds(runner)) ELSE calls

\* runAsync() up to its first suspension (lines 81-135): the link flag is
\* checked, the tasks are registered and ordered, the runner is constructed
\* and executeAsync() starts the first tasks.  An invalid link flag, an
\* error of the registration and a cyclic-dependency error end the run
\* before the try block.
RunAsync ==
  /\ phase = "idle"
  /\ IF ~rushConfiguration.lastLinkFlagValid
     THEN /\ phase' = "failed"
          /\ thrown' = LinkFlagInvalid
          /\ runResult' = "failure"
          /\ UNCHANGED <<taskCollection, cycleChain, buildQueue, taskRunner,
                         isIncrementalBuildAllowed, afterTaskVars>>
     ELSE
     LET registered == registerTasks(taskCollection, rushConfiguration, action)
         ordered == getOrderedTasks(registered.collection)
         builders == [t \in Range(registered.collection.tasks) |->
                        action.isIncrementalBuildAllowed]
     IN IF registered.error # NoError \/ ordered.error # NoError
        THEN /\ phase' = "failed"
             /\ thrown' = IF registered.error # NoError THEN registered.error ELSE ordered.error
             /\ cycleChain' = ordered.chain
             /\ taskCollection' = registered.collection
             /\ runResult' = "failure"
             /\ isIncrementalBuildAllowed' = builders
             /\ UNCHANGED <<buildQueue, taskRunner, afterTaskVars>>
        ELSE LET s == startAvailableTasks(
                        [collection |-> ordered.collection,
                         runner |-> newTaskRunner(ordered.buildQueue, taskRunnerOptions(action))])
                 settled == s.runner.currentActiveTasks = 0
             IN /\ buildQueue' = ordered.buildQueue
                /\ taskCollection' = s.collection
                /\ taskRunner' = s.runner
                /\ isIncrementalBuildAllowed' = builders
                /\ phase' = IF settled THEN "done" ELSE "running"
                /\ runResult' = IF settled THEN runAsyncResult(s.runner) ELSE "pending"
                /\ telemetry' = IF settled
                                THEN doAfterTask(action, telemetry, executeAsyncSucceeds(s.runner))
                                ELSE telemetry
                /\ afterTaskCalls' = afterTaskCallsOf(afterTaskCalls, settled, s.runner)
                /\ UNCHANGED <<thrown, cycleChain>>
  /\ UNCHANGED <<rushConfiguration, action, projectBuilder, libraryVars>>

\* The builder of an executing task hands back its result: the task is
\* marked, its dependents are re-evaluated and the free slot is refilled.
\* When nothing is executing any more, executeAsync() settles and runAsync()
\* ends: with the after-task step, and with AlreadyReportedError when
\* executeAsync() failed, whatever it failed with.
TaskCompleted(t, result) ==
  /\ phase = "running"
  /\ hasTask(taskCollection, t)
  /\ taskCollection.status[t] = Executing
  /\ LET s == completeTask([collection |-> taskCollection, runner |-> taskRunner], t, result)
         settled == s.runner.currentActiveTasks = 0
     IN /\ taskCollection' = s.collection
        /\ taskRunner' = s.runner
        /\ isIncrementalBuildAllowed' =
             markDependents(isIncrementalBuildAllowed, taskCollection, taskRunner, t, result)
        /\ phase' = IF settled THEN "done" ELSE "running"
        /\ runResult' = IF settled THEN runAsyncResult(s.runner) ELSE "pending"
        /\ \E error \in ExecuteAsyncErrors :
             thrown' = IF settled /\ ~executeAsyncSucceeds(s.runner)
                       THEN runAsyncError(error)
                       ELSE thrown
        /\ telemetry' = IF settled
                        THEN doAfterTask(action, telemetry, executeAsyncSucceeds(s.runner))
                        ELSE telemetry
        /\ afterTaskCalls' = afterTaskCallsOf(afterTaskCalls, settled, s.runner)
  /\ UNCHANGED <<cycleChain, buildQueue, rushConfiguration, action, projectBuilder,
                 libraryVars>>

RunNext ==
  \/ RunAsync
  \/ \E t \in Names, result \in BuilderResults : TaskCompleted(t, result)

RunSpec == RunInit /\ [][RunNext]_vars

(***************************************************************************)
(* Specification of an incremental run: a bulk command, with or without    *)
(* incremental builds and --changed-projects-only, on an acyclic project   *)
(* graph, one task at a time; the result of each task is the one the       *)
(* pipeline of its builder                                                 *)
(* gives for the builder's permission to skip, the prior and the current   *)
(* state of the project and the outcome of the cache restore.              *)
(***************************************************************************)

\* The prior states the builder of a task can load, and the current states
\* it can compute: none, or a file-hash map with one of two hashes.
LastProjectBuildDeps ==
  {UndefinedDeps,
   [defined |-> TRUE, files |-> [x \in {"p"} |-> "h1"], arguments |-> "build"]}

CurrentProjectBuildDeps ==
  {UndefinedDeps} \cup
  {[defined |-> TRUE, files |-> [x \in {"p"} |-> h], arguments |-> "build"] :
     h \in Hashes}

\* What the pipeline of a builder can hand back (ProjectBuilder, lines
\* 234-238 and 262-299): FromCache or Skipped without running the command,
\* else what the command gives.
pipelineResults(restored, lastProjectBuildDeps, projectBuildDeps, incrementalBuildAllowed) ==
  LET branch == pipelineBranch(restored,
                               isPackageUnchanged(lastProjectBuildDeps, projectBuildDeps),
                               incrementalBuildAllowed)
  IN IF branch = "Build" THEN {Success, SuccessWithWarning, Failure} ELSE {branch}

IncrementalRunInit ==
  /\ taskCollection = NewTaskCollection
  /\ phase = "idle"
  /\ thrown = NoError
  /\ cycleChain = <<>>
  /\ buildQueue = <<>>
  /\ \E g \in {h \in ProjectGraphs : ~IsCyclicGraph(h)} :
       rushConfiguration = [projects |-> Projects, localDependencyProjects |-> g,
                            lastLinkFlagValid |-> TRUE]
  /\ \E incremental \in BOOLEAN, changed \in BOOLEAN :
       action = [NoAction EXCEPT !.isIncrementalBuildAllowed = incremental,
                                 !.changedProjectsOnly = changed]
  /\ taskRunner = NoTaskRunner
  /\ runResult = "pending"
  /\ projectBuilder = NoProjectBuilder
  /\ isIncrementalBuildAllowed = <<>>
  /\ telemetry = NoTelemetry
  /\ afterTaskCalls = <<>>
  /\ output = NoOutput
  /\ fileSystem = NoFileSystem
  /\ environmentConfiguration = NewEnvironmentConfiguration

\* The builder of an executing task runs its pipeline and hands back the
\* result.  A cache restore can succeed only for a project whose current
\* state could be computed.
TaskBuilt(t, restored, lastProjectBuildDeps, projectBuildDeps, result) ==
  /\ phase = "running"
  /\ hasTask(taskCollection, t)
  /\ taskCollection.status[t] = Executing
  /\ restored => hasProjectBuildCache(TRUE, projectBuildDeps)
  /\ result \in pipelineResults(restored, lastProjectBuildDeps, projectBuildDeps,
                                isIncrementalBuildAllowed[t])
  /\ TaskCompleted(t, result)

IncrementalRunNext ==
  \/ RunAsync
  \/ \E t \in Names, restored \in BOOLEAN, result \in BuilderResults :
       \E lastProjectBuildDeps \in LastProjectBuildDeps,
          projectBuildDeps \in CurrentProjectBuildDeps :
         TaskBuilt(t, restored, lastProjectBuildDeps, projectBuildDeps, result)

IncrementalRunSpec == IncrementalRunInit /\ [][IncrementalRunNext]_vars

(***************************************************************************)
(* Specification of the outcome of a bulk command: runAsync() of a         *)
(* built-in or of a custom command, with or without a telemetry sink, with *)
(* a valid or an invalid link flag, on any project graph, one task at a    *)
(* time.                                                                   *)
(***************************************************************************)

\* The names of the bulk commands: the built-in ones and a custom one.
ActionNames == BuiltInCommandNames \cup {"lint"}

ActionInit ==
  /\ taskCollection = NewTaskCollection
  /\ phase = "idle"
  /\ thrown = NoError
  /\ cycleChain = <<>>
  /\ buildQueue = <<>>
  /\ \E g \in ProjectGraphs, valid \in BOOLEAN :
       rushConfiguration = [projects |-> Projects, localDependencyProjects |-> g,
                            lastLinkFlagValid |-> valid]
  /\ \E allow \in BOOLEAN, name \in ActionNames :
       action = [NoAction EXCEPT !.allowWarningsInSuccessfulBuild = allow,
                                 !.actionName = name]
  /\ taskRunner = NoTaskRunner
  /\ runResult = "pending"
  /\ projectBuilder = NoProjectBuilder
  /\ isIncrementalBuildAllowed = <<>>
  /\ \E enabled \in BOOLEAN : telemetry = [NoTelemetry EXCEPT !.enabled = enabled]
  /\ afterTaskCalls = <<>>
  /\ output = NoOutput
  /\ fileSystem = NoFileSystem
  /\ environmentConfiguration = NewEnvironmentConfiguration

ActionSpec == ActionInit /\ [][RunNext]_vars

\* The project lists of the --to and --from parameters: one project, or two
\* projects in either order.
SelectionLists ==
  {<<x>> : x \in Names} \cup {p \in Names \X Names : p[1] # p[2]}

\* A run of a bulk command on a selection of the projects of an acyclic
\* graph, with one or two worker slots.
SelectedRunInit ==
  /\ taskCollection = NewTaskCollection
  /\ phase = "idle"
  /\ thrown = NoError
  /\ cycleChain = <<>>
  /\ buildQueue = <<>>
  /\ \E g \in {h \in ProjectGraphs : ~IsCyclicGraph(h)} :
       rushConfiguration = [projects |-> Projects, localDependencyProjects |-> g,
                            lastLinkFlagValid |-> TRUE]
  /\ \E value \in Range(NumberStrings) :
       \/ \E to \in SelectionLists :
            action = [NoAction EXCEPT !.enableParallelism = TRUE,
                                      !.parallelismParameter = value,
                                      !.toProjects = to]
       \/ \E from \in {<<x>> : x \in Names} :
            action = [NoAction EXCEPT !.enableParallelism = TRUE,
                                      !.parallelismParameter = value,
                                      !.fromProjects = from]
  /\ taskRunner = NoTaskRunner
  /\ runResult = "pending"
  /\ projectBuilder = NoProjectBuilder
  /\ isIncrementalBuildAllowed = <<>>
  /\ telemetry = NoTelemetry
  /\ afterTaskCalls = <<>>
  /\ output = NoOutput
  /\ fileSystem = NoFileSystem
  /\ environmentConfiguration = NewEnvironmentConfiguration

SelectedRunSpec == SelectedRunInit /\ [][RunNext]_vars

(***************************************************************************)
(* Specification of the selection: TaskSelector.registerTasks() on any     *)
(* project graph, cyclic ones included, with any --to and --from lists,    *)
(* followed by getOrderedTasks() (BulkScriptAction.runAsync, lines         *)
(* 111-127).                                                               *)
(***************************************************************************)

\* The project lists of the --to parameter: one project, or two projects
\* named out of their configured order.
ToLists ==
  {<<x>> : x \in Names} \cup {<<NameOrder[3], NameOrder[1]>>, <<NameOrder[2], NameOrder[4]>>}

\* The project lists of the --from parameter: one project, or the first two
\* or the last two projects.
FromLists ==
  {<<x>> : x \in Names} \cup {<<NameOrder[1], NameOrder[2]>>, <<NameOrder[4], NameOrder[3]>>}

\* The project graphs of a selection: no project is its own dependency.
SelectionGraphs == {g \in ProjectGraphs : \A x \in Names : x \notin g[x]}

SelectionInit ==
  /\ taskCollection = NewTaskCollection
  /\ phase = "idle"
  /\ thrown = NoError
  /\ cycleChain = <<>>
  /\ buildQueue = <<>>
  /\ \E g \in SelectionGraphs :
       rushConfiguration = [projects |-> Projects, localDependencyProjects |-> g,
                            lastLinkFlagValid |-> TRUE]
  /\ \E to \in {<<>>} \cup ToLists, from \in {<<>>} \cup FromLists, ignore \in BOOLEAN :
       action = [NoAction EXCEPT !.toProjects = to,
                                 !.fromProjects = from,
                                 !.ignoreDependencyOrder = ignore]
  /\ taskRunner = NoTaskRunner
  /\ runResult = "pending"
  /\ projectBuilder = NoProjectBuilder
  /\ isIncrementalBuildAllowed = <<>>
  /\ telemetry = NoTelemetry
  /\ afterTaskCalls = <<>>
  /\ output = NoOutput
  /\ fileSystem = NoFileSystem
  /\ environmentConfiguration = NewEnvironmentConfiguration

\* taskSelector.registerTasks() (BulkScriptAction.runAsync, line 125).
RegisterTasks ==
  /\ phase = "idle"
  /\ LET r == registerTasks(taskCollection, rushConfiguration, action) IN
       /\ taskCollection' = r.collection
       /\ thrown' = r.error
       /\ phase' = IF r.error = NoError THEN "building" ELSE "failed"
  /\ UNCHANGED <<cycleChain, buildQueue, runVars>>

SelectionNext ==
  \/ RegisterTasks
  \/ GetOrderedTasks

SelectionSpec == SelectionInit /\ [][SelectionNext]_vars

\* A run can take a step exactly while it is idle or running: runAsync() is
\* always callable when idle, and a running runner has an Executing task
\* whose command can exit.
RunEnabled == phase \in {"idle", "running"}

\* Every started command eventually exits and the event loop keeps running:
\* weak fairness of RunNext, WF_vars(RunNext), with the enabling condition
\* ENABLED <<RunNext>>_vars written out as RunEnabled.
FairRunSpec == RunSpec /\ (<>[]RunEnabled => []<><<RunNext>>_vars)

(***************************************************************************)
(* Specification of the output of the tasks: the builders of the tasks     *)
(* write chunks to their pipelines in any interleaving, each ends on one   *)
(* of the paths of _executeTaskAsync, and the runner closes the collated   *)
(* writer of a task whose builder has ended.                               *)
(***************************************************************************)

\* The number of chunks the tasks write in all.
MaxChunks == 3

\* The texts of the chunks.
ChunkTexts == {<<"x", CR, LF>>, <<CR>>, <<LF, "y">>}

\* The tasks that write.
OutputTasks == {"a", "b"}

Chunks == [kind : {Stdout, Stderr}, text : ChunkTexts]

ChunksWritten(o) ==
  LET n[S \in SUBSET DOMAIN o.written] ==
        IF S = {} THEN 0
        ELSE LET t == CHOOSE x \in S : TRUE IN Len(o.written[t]) + n[S \ {t}]
  IN n[DOMAIN o.written]

OutputInit ==
  /\ taskCollection = NewTaskCollection
  /\ phase = "output"
  /\ thrown = NoError
  /\ cycleChain = <<>>
  /\ buildQueue = <<>>
  /\ rushConfiguration = NoConfiguration
  /\ action = NoAction
  /\ taskRunner = NoTaskRunner
  /\ runResult = "pending"
  /\ projectBuilder = NoProjectBuilder
  /\ isIncrementalBuildAllowed = <<>>
  /\ telemetry = NoTelemetry
  /\ afterTaskCalls = <<>>
  /\ \E quietMode \in BOOLEAN : output = NewOutput(OutputTasks, quietMode)
  /\ fileSystem = NoFileSystem
  /\ environmentConfiguration = NewEnvironmentConfiguration

outputUnchanged ==
  UNCHANGED <<collectionVars, rushConfiguration, action, taskRunner, runResult,
              projectBuilder, isIncrementalBuildAllowed, afterTaskVars,
              fileSystem, environmentConfiguration>>

\* The builder of a task, or the command it runs, writes a chunk.
WriteChunk(t, chunk) ==
  /\ output.pc[t] = "executing"
  /\ ChunksWritten(output) < MaxChunks
  /\ output' = writeChunk(output, t, chunk)
  /\ outputUnchanged

\* _executeTaskAsync of a task returns or throws.
EndOfPipeline(t, path) ==
  /\ output.pc[t] = "executing"
  /\ output' = endOfPipeline(output, t, path)
  /\ outputUnchanged

\* The runner closes the collated writer of a task whose builder has ended
\* (step 10 of the pipeline of a task).
CloseCollatedWriter(t) ==
  /\ output.pc[t] # "executing"
  /\ output.collator.isOpen[t]
  /\ output' = [output EXCEPT !.collator = collatorClose(@, t)]
  /\ outputUnchanged

OutputNext ==
  \/ \E t \in OutputTasks, chunk \in Chunks : WriteChunk(t, chunk)
  \/ \E t \in OutputTasks, path \in PipelinePaths : EndOfPipeline(t, path)
  \/ \E t \in OutputTasks : CloseCollatedWriter(t)

OutputSpec == OutputInit /\ [][OutputNext]_vars

(***************************************************************************)
(* Specification of a ProjectBuilder: the bulk command is run again and    *)
(* again on one project; between two runs the files of the project, its    *)
(* command and the options of the command may change.                      *)
(***************************************************************************)

ExitCodes == {0, 1}

BuilderInit ==
  /\ taskCollection = NewTaskCollection
  /\ phase = "builder"
  /\ thrown = NoError
  /\ cycleChain = <<>>
  /\ buildQueue = <<>>
  /\ rushConfiguration = NoConfiguration
  /\ action = NoAction
  /\ taskRunner = NoTaskRunner
  /\ runResult = "pending"
  /\ projectBuilder = NewProjectBuilder
  /\ isIncrementalBuildAllowed = <<>>
  /\ telemetry = NoTelemetry
  /\ afterTaskCalls = <<>>
  /\ output = NoOutput
  /\ fileSystem = NoFileSystem
  /\ environmentConfiguration = NewEnvironmentConfiguration

\* The runner calls executeAsync() of the builder.  The inputs that the call
\* does not look at are fixed, so that every step is a different call.
ExecuteAsync(analyzerAvailable, restored, writeOutcome) ==
  /\ projectBuilder.pc = "idle"
  /\ LET b == executeTaskStart(projectBuilder, analyzerAvailable, restored, writeOutcome)
     IN /\ restored = b.run.restored
        /\ b.run.writeOutcome = IF b.run.writeOutcome = "none" THEN "none" ELSE writeOutcome
        /\ b.run.writeOutcome = "none" => writeOutcome = "written"
        /\ projectBuilder' = b
  /\ UNCHANGED <<collectionVars, rushConfiguration, action, taskRunner, runResult,
               isIncrementalBuildAllowed, afterTaskVars, libraryVars>>

\* The command writes to stderr (lines 278-284).
StderrData ==
  /\ projectBuilder.pc = "spawned"
  /\ ~projectBuilder.hasWarningOrError
  /\ projectBuilder' = [projectBuilder EXCEPT !.hasWarningOrError = TRUE]
  /\ UNCHANGED <<collectionVars, rushConfiguration, action, taskRunner, runResult,
               isIncrementalBuildAllowed, afterTaskVars, libraryVars>>

\* The command exits.
Close(code, cacheWriteSuccess, writeOutcome) ==
  /\ projectBuilder.pc = "spawned"
  /\ LET b == closeTask(projectBuilder, code, cacheWriteSuccess, writeOutcome)
     IN /\ IF b.run.cacheWrite = "notAttempted"
           THEN cacheWriteSuccess = "undefined" /\ writeOutcome = "written"
           ELSE (cacheWriteSuccess = "undefined") <=>
                  ~hasProjectBuildCache(projectBuilder.cacheConfigured,
                                        projectBuilder.projectBuildDeps)
        /\ projectBuilder' = b
  /\ UNCHANGED <<collectionVars, rushConfiguration, action, taskRunner, runResult,
               isIncrementalBuildAllowed, afterTaskVars, libraryVars>>

\* The process is killed while the command runs.
Interrupt ==
  /\ projectBuilder.pc = "spawned"
  /\ projectBuilder' = [endOfCall(projectBuilder) EXCEPT !.run.status = "Interrupted"]
  /\ UNCHANGED <<collectionVars, rushConfiguration, action, taskRunner, runResult,
               isIncrementalBuildAllowed, afterTaskVars, libraryVars>>

\* Between two runs the files of the project change; what was remembered of
\* the runs before no longer describes the project.
EditFiles(files) ==
  /\ projectBuilder.pc = "idle"
  /\ files # projectBuilder.files
  /\ projectBuilder' = [projectBuilder EXCEPT !.files = files,
                                               !.run = NoRun, !.previous = NoPreviousRun]
  /\ UNCHANGED <<collectionVars, rushConfiguration, action, taskRunner, runResult,
               isIncrementalBuildAllowed, afterTaskVars, libraryVars>>

\* Between two runs the command of the project or the options change.
Reconfigure(commandToRun, incremental, cacheConfigured) ==
  /\ projectBuilder.pc = "idle"
  /\ <<commandToRun, incremental, cacheConfigured>>
       # <<projectBuilder.commandToRun, projectBuilder.isIncrementalBuildAllowed,
           projectBuilder.cacheConfigured>>
  /\ projectBuilder' = [projectBuilder EXCEPT !.commandToRun = commandToRun,
                                               !.isIncrementalBuildAllowed = incremental,
                                               !.cacheConfigured = cacheConfigured,
                                               !.run = NoRun, !.previous = NoPreviousRun]
  /\ UNCHANGED <<collectionVars, rushConfiguration, action, taskRunner, runResult,
               isIncrementalBuildAllowed, afterTaskVars, libraryVars>>

BuilderNext ==
  \/ \E analyzerAvailable \in BOOLEAN, restored \in BOOLEAN, writeOutcome \in WriteOutcomes :
       ExecuteAsync(analyzerAvailable, restored, writeOutcome)
  \/ StderrData
  \/ \E code \in ExitCodes, cacheWriteSuccess \in CacheWriteResults, writeOutcome \in WriteOutcomes :
       Close(code, cacheWriteSuccess, writeOutcome)
  \/ Interrupt
  \/ \E files \in FileMaps : EditFiles(files)
  \/ \E commandToRun \in Commands, incremental \in BOOLEAN, cacheConfigured \in BOOLEAN :
       Reconfigure(commandToRun, incremental, cacheConfigured)

BuilderSpec == BuilderInit /\ [][BuilderNext]_vars

(***************************************************************************)
(* Graph notions the claims are stated with                                *)
(***************************************************************************)

Registered(c) == Range(c.tasks)

\* The dependents of a task, as a set.
DependentsOf(c, t) == Range(c.dependents[t])

\* Everything reachable from the tasks of S along dependency edges.
RECURSIVE DependencyClosure(_, _)
DependencyClosure(c, S) ==
  LET more == S \cup UNION {c.dependencies[x] : x \in S}
  IN IF more = S THEN S ELSE DependencyClosure(c, more)

\* The transitive dependencies of t (t itself only when it lies on a cycle).
TransitiveDependencies(c, t) == DependencyClosure(c, c.dependencies[t])

HasCycle(c) == \E t \in Registered(c) : t \in TransitiveDependencies(c, t)

\* The tasks reached from S by exactly n steps along dependent edges.
RECURSIVE DependentsAfter(_, _, _)
DependentsAfter(c, S, n) ==
  IF n = 0 THEN S
  ELSE DependentsAfter(c, UNION {DependentsOf(c, x) : x \in S}, n - 1)

\* Length of the longest chain of dependents starting at t.
LongestDependentChain(c, t) ==
  MaxOf({n \in 0..Len(c.tasks) : DependentsAfter(c, {t}, n) # {}})

(***************************************************************************)
(* Claims on the task collection (specification Spec)                      *)
(***************************************************************************)

\* C2 Acyclicity detection: once getOrderedTasks() has been called, it
\* failed with the cyclic-dependency error exactly when the dependency graph
\* built by addTask/addDependencies contains a cycle (self-dependencies
\* included); on an acyclic graph it returned normally.
C2_AcyclicityDetection ==
  phase # "building" =>
    /\ (phase = "failed") <=> HasCycle(taskCollection)
    /\ (thrown = CyclicDependency) <=> HasCycle(taskCollection)
    /\ (phase = "ordered") <=> (thrown = NoError)

\* C2 witness: the check failed on a cycle that the first task of the
\* iteration order is not part of and that is no self-dependency.
C2_Witness ==
  /\ phase = "failed"
  /\ thrown = CyclicDependency
  /\ Len(taskCollection.tasks) = 3
  /\ taskCollection.tasks[1] \notin TransitiveDependencies(taskCollection, taskCollection.tasks[1])
  /\ \A t \in Registered(taskCollection) : t \notin taskCollection.dependencies[t]

\* C8 Critical-path length: after getOrderedTasks() succeeded, a task with no
\* dependents has criticalPathLength 0, any other task has 1 plus the maximum
\* criticalPathLength of its dependents, and the value is the length of the
\* longest chain of dependents starting at the task.
C8_CriticalPathLength ==
  phase = "ordered" =>
    \A t \in Registered(taskCollection) :
      LET cpl == taskCollection.criticalPathLength
          ds == DependentsOf(taskCollection, t)
      IN /\ cpl[t] = IF ds = {} THEN 0 ELSE 1 + MaxOf({cpl[d] : d \in ds})
         /\ cpl[t] = LongestDependentChain(taskCollection, t)

\* C8 witness: the chain a <- b <- c, ordered, with lengths a=2, b=1, c=0.
C8_Witness ==
  /\ phase = "ordered"
  /\ Registered(taskCollection) = {"a", "b", "c"}
  /\ taskCollection.dependencies["a"] = {}
  /\ taskCollection.dependencies["b"] = {"a"}
  /\ taskCollection.dependencies["c"] = {"b"}
  /\ taskCollection.criticalPathLength["a"] = 2
  /\ taskCollection.criticalPathLength["b"] = 1
  /\ taskCollection.criticalPathLength["c"] = 0

\* C9 Ordered queue: the list returned by getOrderedTasks() on an acyclic
\* collection holds every registered task exactly once, is sorted by
\* non-increasing criticalPathLength, and lists every dependency of a task
\* before the task.
C9_OrderedQueue ==
  phase = "ordered" =>
    LET cpl == taskCollection.criticalPathLength IN
    /\ Len(buildQueue) = Len(taskCollection.tasks)
    /\ \A t \in Registered(taskCollection) :
         Cardinality({i \in DOMAIN buildQueue : buildQueue[i] = t}) = 1
    /\ \A i, j \in DOMAIN buildQueue : i < j => cpl[buildQueue[i]] >= cpl[buildQueue[j]]
    /\ \A t \in Registered(taskCollection) : \A d \in taskCollection.dependencies[t] :
         IndexOf(buildQueue, d) < IndexOf(buildQueue, t)

\* C9 witness: three tasks with an edge, returned in an order that differs
\* from the order of registration.
C9_Witness ==
  /\ phase = "ordered"
  /\ Len(buildQueue) = 3
  /\ buildQueue # taskCollection.tasks
  /\ \E t \in Registered(taskCollection) : taskCollection.dependencies[t] # {}

StatusOf(t) == taskCollection.status[t]

ExecutingTasks == {t \in Registered(taskCollection) : StatusOf(t) = Executing}

Started == phase \in {"running", "done"}

AllTerminal ==
  /\ Registered(taskCollection) = Range(rushConfiguration.projects)
  /\ \A t \in Registered(taskCollection) : StatusOf(t) \in TerminalStates

\* C1 Topological execution: a task that is Executing, or that has been
\* executed, has every one of its dependencies in a success-like terminal
\* state; so no task enters Executing before all its dependencies succeeded.
C1_TopologicalExecution ==
  Started =>
    \A t \in Registered(taskCollection) :
      StatusOf(t) \notin {Ready, Blocked} =>
        \A d \in taskCollection.dependencies[t] : StatusOf(d) \in SuccessLike

\* C1 witness: a task with two dependencies is Executing next to another
\* Executing task.
C1_Witness ==
  /\ phase = "running"
  /\ \E t \in ExecutingTasks :
       /\ Cardinality(taskCollection.dependencies[t]) = 2
       /\ ExecutingTasks # {t}

\* C3 Parallelism bound: the number of Executing tasks never exceeds the
\* parallelism of the runner; when the action was created with parallelism
\* disabled the runner was given '1' and at most one task is Executing.
C3_ParallelismBound ==
  Started =>
    /\ Cardinality(ExecutingTasks) <= taskRunner.parallelism
    /\ ~action.enableParallelism =>
         /\ taskRunner.parallelismOption = "1"
         /\ Cardinality(ExecutingTasks) <= 1

\* C3 witness: with parallelism 2, two tasks are Executing while a third
\* task has all its dependencies satisfied and waits for a slot.
C3_Witness ==
  /\ phase = "running"
  /\ taskRunner.parallelism = 2
  /\ Cardinality(ExecutingTasks) = 2
  /\ \E t \in Registered(taskCollection) : isLaunchable(taskCollection, t)

\* C4 Block propagation: at the end of a run a task is Blocked exactly when
\* one of its transitive dependencies is in Failure, and every dependent of
\* a Blocked task is Blocked; a Blocked task was never started.
C4_BlockPropagation ==
  /\ \A t \in Registered(taskCollection) :
       StatusOf(t) = Blocked => t \notin taskRunner.started
  /\ phase = "done" =>
       \A t \in Registered(taskCollection) :
         /\ StatusOf(t) = Blocked <=>
              \E d \in TransitiveDependencies(taskCollection, t) : StatusOf(d) = Failure
         /\ StatusOf(t) = Blocked =>
              \A u \in DependentsOf(taskCollection, t) : StatusOf(u) = Blocked

\* C4 witness: a finished run with a Blocked task none of whose direct
\* dependencies failed.
C4_Witness ==
  /\ phase = "done"
  /\ \E t \in Registered(taskCollection) :
       /\ StatusOf(t) = Blocked
       /\ \A d \in taskCollection.dependencies[t] : StatusOf(d) # Failure

\* C5 Overall result: a finished run succeeded exactly when every task ended
\* in Success, Skipped or FromCache, or in SuccessWithWarning with warnings
\* allowed in a successful build.
C5_OverallResult ==
  phase = "done" =>
    (runResult = "success" <=>
       \A t \in Registered(taskCollection) :
         \/ StatusOf(t) \in {Success, Skipped, FromCache}
         \/ StatusOf(t) = SuccessWithWarning /\ action.allowWarningsInSuccessfulBuild)

\* C5 witness: a run with a task in SuccessWithWarning, a Skipped task and a
\* task from the cache succeeded because warnings are allowed.
C5_Witness ==
  /\ phase = "done"
  /\ runResult = "success"
  /\ action.allowWarningsInSuccessfulBuild
  /\ \E t, u, v \in Registered(taskCollection) :
       /\ StatusOf(t) = SuccessWithWarning
       /\ StatusOf(u) = Skipped
       /\ StatusOf(v) = FromCache

\* C6 Failure isolation: a started task is Executing or in the state its
\* own builder reported (a failure elsewhere never aborts it), and at the
\* end of a run every task none of whose transitive dependencies failed was
\* started and is in the state its builder reported.
C6_FailureIsolation ==
  /\ \A t \in taskRunner.started :
       \/ StatusOf(t) = Executing /\ t \notin DOMAIN taskRunner.builderResult
       \/ t \in DOMAIN taskRunner.builderResult /\ StatusOf(t) = taskRunner.builderResult[t]
  /\ phase = "done" =>
       \A t \in Registered(taskCollection) :
         (\A d \in TransitiveDependencies(taskCollection, t) : StatusOf(d) # Failure)
           => t \in taskRunner.started /\ StatusOf(t) \in BuilderResults

IsDiamond ==
  /\ rushConfiguration.localDependencyProjects["a"] = {}
  /\ rushConfiguration.localDependencyProjects["b"] = {"a"}
  /\ rushConfiguration.localDependencyProjects["c"] = {"a"}
  /\ rushConfiguration.localDependencyProjects["d"] = {"b", "c"}

\* C6 witness: the diamond in which b failed while c was Executing: a is in
\* Success, d is Blocked and c is still Executing.
C6_Witness ==
  /\ IsDiamond
  /\ phase = "running"
  /\ StatusOf("a") = Success
  /\ StatusOf("b") = Failure
  /\ StatusOf("c") = Executing
  /\ StatusOf("d") = Blocked

\* C7 Termination: a run that started on an acyclic collection eventually
\* has every task in a terminal state, none Ready or Executing.
C7_Termination ==
  (phase = "idle" /\ ~IsCyclicGraph(rushConfiguration.localDependencyProjects))
    ~> (phase = "done" /\ AllTerminal)

\* C7 witness: a finished run in which every terminal state but Skipped and
\* FromCache occurs.
C7_Witness ==
  /\ phase = "done"
  /\ AllTerminal
  /\ {StatusOf(t) : t \in Registered(taskCollection)}
       = {Success, SuccessWithWarning, Failure, Blocked}

(***************************************************************************)
(* Claims on the priority of the frontier (specification SelectedRunSpec)  *)
(***************************************************************************)

\* The task was not started before the step.
WasNotStarted(t) == ~hasTask(taskCollection, t) \/ taskCollection.status[t] = Ready

\* The step launched the task.
LaunchedInStep(t) ==
  /\ WasNotStarted(t)
  /\ hasTask(taskCollection', t)
  /\ taskCollection'.status[t] = Executing

\* After the step the task is launchable and still waits for a slot.
WaitsAfterStep(u) == hasTask(taskCollection', u) /\ isLaunchable(taskCollection', u)

RunEnded == projectBuilder.pc = "idle" /\ projectBuilder.run.status # "none"

\* A call of executeAsync() has been made and nothing was edited since.
RunStarted == projectBuilder.pc = "spawned" \/ RunEnded

\* The prior and the current file-hash map have the same set of paths and
\* the same hash for each path.
SameFileHashMaps(prior, current) ==
  /\ DOMAIN prior = DOMAIN current
  /\ \A path \in DOMAIN current : prior[path] = current[path]

\* The conditions of the skip decision, over what the call met when it began.
SkipConditions ==
  /\ ~projectBuilder.run.restored
  /\ projectBuilder.run.incremental
  /\ projectBuilder.run.lastDepsFile.kind = "json"
  /\ projectBuilder.run.analyzerAvailable
  /\ projectBuilder.run.lastDepsFile.arguments = projectBuilder.commandToRun
  /\ SameFileHashMaps(projectBuilder.run.lastDepsFile.files, projectBuilder.files)

\* C12: the pipeline of a task ends in Skipped if and only if no cache restore
\* succeeded, incremental build is allowed, a prior state file exists and was
\* readable, the analyzer produced a file-hash map, the prior command equals
\* the current one and the two file-hash maps have the same paths with the
\* same hashes; when the restore succeeds the outcome is FromCache.
C12_SkipDecision ==
  RunStarted =>
    /\ (projectBuilder.run.status = Skipped) <=> SkipConditions
    /\ projectBuilder.run.restored => projectBuilder.run.status = FromCache

\* A task was skipped on a project of two files.
C12_Witness ==
  /\ RunEnded
  /\ projectBuilder.run.status = Skipped
  /\ DOMAIN projectBuilder.files = Paths

\* The restore succeeded although the state file matched.
RestoredAlthoughUnchanged ==
  /\ RunEnded
  /\ projectBuilder.run.status = FromCache
  /\ projectBuilder.run.packageUnchanged
  /\ projectBuilder.run.incremental

\* Two consecutive calls were made with incremental build allowed, no cache
\* and nothing edited between them, and the first one ran to its end.
SecondOfTwoRuns ==
  /\ RunStarted
  /\ projectBuilder.previous.status \in {Success, SuccessWithWarning, Failure, Skipped}
  /\ projectBuilder.isIncrementalBuildAllowed
  /\ ~projectBuilder.cacheConfigured

CommandRunningFailedOrInterrupted ==
  \/ projectBuilder.pc = "spawned"
  \/ /\ RunEnded
     /\ \/ projectBuilder.run.closed /\ projectBuilder.run.code # 0
        \/ projectBuilder.run.status = "Interrupted"

\* C14: the state file is deleted before the command is spawned, so while the
\* command runs, after it has failed and after it was interrupted the state
\* file does not exist; a state file that exists holds the files and the
\* command of a build that completed successfully, no command having been
\* started for the project since.
C14_StateFileOnlyReflectsSuccess ==
  /\ CommandRunningFailedOrInterrupted => projectBuilder.depsFile.kind = "absent"
  /\ projectBuilder.depsFile.kind = "json" =>
       /\ projectBuilder.lastSuccessfulBuild.defined
       /\ projectBuilder.depsFile.files = projectBuilder.lastSuccessfulBuild.files
       /\ projectBuilder.depsFile.arguments = projectBuilder.lastSuccessfulBuild.arguments

\* A project that had a state file was built again and its command failed.
C14_Witness ==
  /\ RunEnded
  /\ projectBuilder.run.lastDepsFile.kind = "json"
  /\ projectBuilder.run.closed
  /\ projectBuilder.run.code # 0
  /\ projectBuilder.depsFile.kind = "absent"

\* The state file holds the current file-hash map and command string.
StateFileIsCurrent ==
  /\ projectBuilder.depsFile.kind = "json"
  /\ SameFileHashMaps(projectBuilder.depsFile.files, projectBuilder.files)
  /\ projectBuilder.depsFile.arguments = projectBuilder.commandToRun

\* C15: when the cache restore succeeds and the task ends FromCache, the state
\* file has been written with the current file-hash map and command string
\* by the time the task is in its terminal state.
C15_FromCacheWritesStateFile ==
  (RunEnded /\ projectBuilder.run.status = FromCache) => StateFileIsCurrent

\* The command of the last call was spawned and exited with code zero, and
\* the analyzer had produced the file-hash map.
CommandExitedZero ==
  /\ RunEnded
  /\ projectBuilder.run.closed
  /\ projectBuilder.run.code = 0
  /\ projectBuilder.run.analyzerAvailable

\* A cache store was attempted, when the project has a build cache.
CacheStoreAttempted ==
  projectBuilder.cacheConfigured => projectBuilder.run.cacheWrite \in {"true", "false"}

\* C16 as stated: on every success-like outcome of an executed command,
\* SuccessWithWarning by stderr output included, the new state file is written
\* and a cache store is attempted, provided the analyzer produced the map.
C16_WriteOnEverySuccessLike ==
  (CommandExitedZero /\ projectBuilder.run.status \in {Success, SuccessWithWarning})
    => StateFileIsCurrent /\ CacheStoreAttempted

\* C16, amended: after exit code zero without stderr output the write of the
\* new state file and a cache store are attempted, and a write that completes
\* leaves the current file-hash map and command; after exit code zero with
\* stderr output the task ends SuccessWithWarning, nothing is written and no
\* cache store is attempted.
C16_WriteOnSuccessOnly ==
  CommandExitedZero =>
    IF projectBuilder.run.stderr
    THEN /\ projectBuilder.run.status = SuccessWithWarning
         /\ projectBuilder.run.writeOutcome = "none"
         /\ projectBuilder.depsFile.kind = "absent"
         /\ projectBuilder.run.cacheWrite = "notAttempted"
    ELSE /\ projectBuilder.run.writeOutcome \in WriteOutcomes
         /\ projectBuilder.run.writeOutcome = "written" => StateFileIsCurrent
         /\ CacheStoreAttempted

\* A command ended without stderr output on a project with a cache: the
\* state file and the cache entry were written.
C16_Witness ==
  /\ CommandExitedZero
  /\ ~projectBuilder.run.stderr
  /\ projectBuilder.cacheConfigured
  /\ projectBuilder.run.cacheWrite = "true"
  /\ projectBuilder.files # <<>>
  /\ StateFileIsCurrent

\* The spawned command of the last call has exited.
CommandClosed == RunEnded /\ projectBuilder.run.closed

\* C17: a spawned command that exits with a non-zero code makes the task end
\* in Failure, and one that exits with code zero makes it end in Success or
\* SuccessWithWarning, never in Failure.
C17_ExitCodeMapping ==
  CommandClosed =>
    IF projectBuilder.run.code # 0
    THEN projectBuilder.run.status = Failure
    ELSE projectBuilder.run.status \in {Success, SuccessWithWarning}

\* The half of C17 the code keeps: a non-zero exit code ends the task in
\* Failure, and a zero exit code ends it in Failure only when the write of
\* the state file threw.
NonZeroExitFails ==
  CommandClosed =>
    /\ projectBuilder.run.code # 0 => projectBuilder.run.status = Failure
    /\ (projectBuilder.run.code = 0 /\ projectBuilder.run.status = Failure)
         => projectBuilder.run.writeOutcome \in {"failed", "truncated"}

\* C18: after exit code zero the task ends SuccessWithWarning when the
\* command wrote to stderr or when the cache write was attempted and failed,
\* and ends Success when it wrote nothing to stderr and the cache write did
\* not fail; a failed cache write never turns the task into Failure.
C18_WarningRule ==
  (CommandClosed /\ projectBuilder.run.code = 0) =>
    /\ (projectBuilder.run.stderr \/ projectBuilder.run.cacheWrite = "false")
         => projectBuilder.run.status = SuccessWithWarning
    /\ (~projectBuilder.run.stderr /\ projectBuilder.run.cacheWrite # "false")
         => projectBuilder.run.status = Success
    /\ projectBuilder.run.cacheWrite = "false" => projectBuilder.run.status # Failure

\* What the code keeps of C18: when the write of the state file does not
\* throw, a zero exit ends in SuccessWithWarning exactly when the command
\* wrote to stderr, the cache write failed, or the prior state file could
\* not be parsed (a warning line on the task's terminal), and in Success
\* otherwise.
WarningRuleOfTheCode ==
  (CommandClosed /\ projectBuilder.run.code = 0
     /\ projectBuilder.run.writeOutcome \in {"none", "written"}) =>
    IF \/ projectBuilder.run.stderr
       \/ projectBuilder.run.cacheWrite = "false"
       \/ /\ projectBuilder.run.lastDepsFile.kind = "unparsable"
          /\ projectBuilder.run.analyzerAvailable
    THEN projectBuilder.run.status = SuccessWithWarning
    ELSE projectBuilder.run.status = Success

\* The last call was made for a project whose command string is empty.
EmptyCommandRun == RunStarted /\ projectBuilder.commandToRun = EmptyScript

\* The last call has ended, neither restored from the cache nor skipped.
EmptyCommandBuilt ==
  /\ EmptyCommandRun
  /\ RunEnded
  /\ projectBuilder.run.status \notin {FromCache, Skipped}

\* No child process was spawned by the last call.
NeverSpawned == projectBuilder.pc # "spawned" /\ ~projectBuilder.run.spawned

AnalyzerUnavailableRun == RunStarted /\ ~projectBuilder.run.analyzerAvailable

\* C20: when the change analyzer fails for a project the task does not fail
\* for that reason (it fails only when its command exits with a non-zero
\* code), it is never Skipped nor restored, its command is run when there is
\* one, and no state file is written: the prior one is deleted and none
\* exists after the run.
C20_AnalyzerUnavailable ==
  AnalyzerUnavailableRun =>
    /\ projectBuilder.run.status \notin {Skipped, FromCache}
    /\ projectBuilder.commandToRun # EmptyScript => projectBuilder.run.spawned
    /\ projectBuilder.run.writeOutcome = "none"
    /\ projectBuilder.run.cacheWrite = "notAttempted"
    /\ projectBuilder.depsFile.kind = "absent"
    /\ RunEnded =>
         /\ projectBuilder.run.status \in {Success, SuccessWithWarning, Failure, "Interrupted"}
         /\ projectBuilder.run.status = Failure
              => projectBuilder.run.closed /\ projectBuilder.run.code # 0

\* The analyzer failed for a project whose state file matched and whose
\* incremental build is allowed: the command was run to its end and the
\* state file is gone.
C20_Witness ==
  /\ AnalyzerUnavailableRun
  /\ RunEnded
  /\ projectBuilder.run.incremental
  /\ projectBuilder.run.lastDepsFile.kind = "json"
  /\ projectBuilder.run.lastDepsFile.arguments = projectBuilder.commandToRun
  /\ SameFileHashMaps(projectBuilder.run.lastDepsFile.files, projectBuilder.files)
  /\ projectBuilder.run.closed
  /\ projectBuilder.run.status = Success
  /\ projectBuilder.depsFile.kind = "absent"

\* The command of the last call exited with code zero and the write of the
\* state file that followed threw.
StateFileWriteFailed ==
  /\ CommandClosed
  /\ projectBuilder.run.code = 0
  /\ projectBuilder.run.writeOutcome \in {"failed", "truncated"}

\* C21: an I/O error while writing the state file after a successful command
\* does not fail the task; the task still ends in a success-like state.
C21_StateFileWriteErrorDoesNotFail ==
  StateFileWriteFailed =>
    projectBuilder.run.status \in {Success, SuccessWithWarning}

\* What the code keeps of C21: after a write that threw there is no state
\* file that parses, so the next run cannot skip the project.
FailedWriteLeavesNoState ==
  StateFileWriteFailed => projectBuilder.depsFile.kind # "json"


(***************************************************************************)
(* Claims about the selection of projects (TaskSelector)                   *)
(***************************************************************************)

\* The projects of S and everything they depend on, directly or not.
RECURSIVE UpstreamClosure(_, _)
UpstreamClosure(g, S) ==
  LET next == S \cup UNION {g[x] : x \in S}
  IN IF next = S THEN S ELSE UpstreamClosure(g, next)

\* The projects of S and everything that depends on them, directly or not.
RECURSIVE DownstreamClosure(_, _)
DownstreamClosure(g, S) ==
  LET next == S \cup {y \in DOMAIN g : g[y] \cap S # {}}
  IN IF next = S THEN S ELSE DownstreamClosure(g, next)

\* The projects a run selects.
SelectedProjects ==
  IF action.toProjects = <<>> /\ action.fromProjects = <<>>
  THEN Range(rushConfiguration.projects)
  ELSE UpstreamClosure(rushConfiguration.localDependencyProjects, Range(action.toProjects))
         \cup DownstreamClosure(rushConfiguration.localDependencyProjects,
                                Range(action.fromProjects))

\* registerTasks() has returned or thrown.
TasksRegistered == phase \in {"building", "ordered", "failed"}

\* C23: for every project graph, cyclic ones included, and every to-set and
\* from-set, registerTasks() returns without an error, and the registered
\* tasks are all projects when both sets are empty, otherwise the upstream
\* closure of the to-set together with the downstream closure of the
\* from-set, each project registered exactly once.
C23_Selection ==
  TasksRegistered =>
    /\ thrown \in {NoError, CyclicDependency}
    /\ Registered(taskCollection) = SelectedProjects
    /\ Len(taskCollection.tasks) = Cardinality(Registered(taskCollection))

\* Tasks were registered on a cyclic graph with a to-set and a from-set whose
\* closures overlap without one containing the other.
C23_Witness ==
  /\ TasksRegistered
  /\ IsCyclicGraph(rushConfiguration.localDependencyProjects)
  /\ LET g == rushConfiguration.localDependencyProjects
         up == UpstreamClosure(g, Range(action.toProjects))
         down == DownstreamClosure(g, Range(action.fromProjects))
     IN /\ action.toProjects # <<>>
        /\ action.fromProjects # <<>>
        /\ up \cap down # {}
        /\ up \ down # {}
        /\ down \ up # {}
        /\ Cardinality(up) > Len(action.toProjects)
        /\ Registered(taskCollection) = up \cup down

\* What registerTasks() registers for the same projects and lists when
\* ignoreDependencyOrder is false.
RegisteredWithDependencyOrder ==
  Registered(registerTasks(NewTaskCollection, rushConfiguration,
                           [action EXCEPT !.ignoreDependencyOrder = FALSE]).collection)

\* C24: with ignoreDependencyOrder true, for every to/from selection every
\* registered task has no dependencies and no dependents, getOrderedTasks()
\* reports no cycle and gives every task the critical-path length 0, and the
\* registered tasks are those registered with the option false.
C24_IgnoreDependencyOrder ==
  (TasksRegistered /\ action.ignoreDependencyOrder) =>
    /\ \A t \in Registered(taskCollection) :
         /\ taskCollection.dependencies[t] = {}
         /\ taskCollection.dependents[t] = <<>>
    /\ thrown = NoError
    /\ phase # "failed"
    /\ phase = "ordered" =>
         /\ \A t \in Registered(taskCollection) : taskCollection.criticalPathLength[t] = 0
         /\ Range(buildQueue) = Registered(taskCollection)
    /\ Registered(taskCollection) = RegisteredWithDependencyOrder

\* The tasks of a to-set and a from-set of a cyclic graph were registered
\* with ignoreDependencyOrder and ordered.
C24_Witness ==
  /\ phase = "ordered"
  /\ action.ignoreDependencyOrder
  /\ action.toProjects # <<>>
  /\ action.fromProjects # <<>>
  /\ IsCyclicGraph(rushConfiguration.localDependencyProjects)
  /\ \E x \in Registered(taskCollection) :
       rushConfiguration.localDependencyProjects[x] \cap Registered(taskCollection) # {}
  /\ Cardinality(Registered(taskCollection)) >= 3


(***************************************************************************)
(* Claims about the calls of the TaskCollection                            *)
(***************************************************************************)

\* The tasks that were registered before a step keep their edges, status and
\* critical-path length in the step.
OtherTasksUnchanged ==
  \A t \in Registered(taskCollection) :
    /\ taskCollection'.dependencies[t] = taskCollection.dependencies[t]
    /\ taskCollection'.dependents[t] = taskCollection.dependents[t]
    /\ taskCollection'.status[t] = taskCollection.status[t]
    /\ taskCollection'.criticalPathLength[t] = taskCollection.criticalPathLength[t]

\* What a call addTask(name) has to do.
AddTaskContract(name) ==
  IF name \in Registered(taskCollection)
  THEN /\ thrown' = DuplicateTask
       /\ taskCollection' = taskCollection
  ELSE /\ thrown' = NoError
       /\ taskCollection'.tasks = Append(taskCollection.tasks, name)
       /\ taskCollection'.status[name] = Ready
       /\ taskCollection'.dependencies[name] = {}
       /\ taskCollection'.dependents[name] = <<>>
       /\ OtherTasksUnchanged

\* C25: addTask fails with an error when a task with the same name is already
\* registered, and the collection is then exactly as before the call;
\* otherwise it adds exactly one task, Ready, with no dependencies and no
\* dependents.
C25_AddTask ==
  [][\A name \in TaskNames : AddTask(name) => AddTaskContract(name)]_vars

\* addTask was refused for a task that has a dependency.
C25_Witness ==
  /\ phase = "building"
  /\ thrown = DuplicateTask
  /\ \E t \in Registered(taskCollection) : taskCollection.dependencies[t] # {}

\* What a call addDependencies(taskName, taskDependencies) has to do.
AddDependenciesContract(taskName, taskDependencies) ==
  /\ taskCollection'.tasks = taskCollection.tasks
  /\ \A t \in Registered(taskCollection) : taskCollection'.status[t] = taskCollection.status[t]
  /\ IF taskName \notin Registered(taskCollection)
     THEN thrown' = UnknownTask
     ELSE IF \E d \in Range(taskDependencies) : d \notin Registered(taskCollection)
     THEN thrown' = UnknownDependency
     ELSE /\ thrown' = NoError
          /\ \A t \in Registered(taskCollection) :
               /\ taskCollection'.dependencies[t] =
                    taskCollection.dependencies[t]
                      \cup (IF t = taskName THEN Range(taskDependencies) ELSE {})
               /\ Range(taskCollection'.dependents[t]) =
                    Range(taskCollection.dependents[t])
                      \cup (IF t \in Range(taskDependencies) THEN {taskName} ELSE {})

\* C26: addDependencies fails with an error when the task name is not
\* registered or when a name of the dependency list is not registered; it
\* never creates a task, and when it succeeds it adds, for every listed name
\* D, exactly the edge "task depends on D".
C26_AddDependencies ==
  [][\A taskName \in TaskNames : \A taskDependencies \in SeqsUpTo(TaskNames, MaxDepList) :
       AddDependencies(taskName, taskDependencies)
         => AddDependenciesContract(taskName, taskDependencies)]_vars

\* addDependencies was refused for a dependency that is not registered, in a
\* collection where a task has two dependencies.
C26_Witness ==
  /\ phase = "building"
  /\ thrown = UnknownDependency
  /\ Len(taskCollection.tasks) < Cardinality(TaskNames)
  /\ \E t \in Registered(taskCollection) : Cardinality(taskCollection.dependencies[t]) = 2

\* C27: after any sequence of addTask and addDependencies calls, refused ones
\* included, task names are unique, every member of a dependencies or
\* dependents set is a task of the collection, and D is in T.dependencies if
\* and only if T is in D.dependents.
C27_CollectionInvariant ==
  /\ Len(taskCollection.tasks) = Cardinality(Registered(taskCollection))
  /\ \A t \in Registered(taskCollection) :
       /\ taskCollection.dependencies[t] \subseteq Registered(taskCollection)
       /\ Range(taskCollection.dependents[t]) \subseteq Registered(taskCollection)
       /\ Len(taskCollection.dependents[t]) = Cardinality(Range(taskCollection.dependents[t]))
  /\ \A t \in Registered(taskCollection), d \in Registered(taskCollection) :
       d \in taskCollection.dependencies[t] <=> t \in Range(taskCollection.dependents[d])

\* A call has just been refused on a collection of three tasks and at least
\* three dependency edges.
C27_Witness ==
  /\ phase = "building"
  /\ thrown # NoError
  /\ Len(taskCollection.tasks) = 3
  /\ EdgeCount(taskCollection) >= 3


(***************************************************************************)
(* Claims about the end of a run (BulkScriptAction.runAsync)               *)
(***************************************************************************)

\* No task runner was constructed and no task has left the Ready state.
NothingExecuted ==
  /\ taskRunner = NoTaskRunner
  /\ buildQueue = <<>>
  /\ \A t \in Registered(taskCollection) : taskCollection.status[t] = Ready

\* C28: when the registered tasks contain a dependency cycle,
\* getOrderedTasks() fails before the task runner is constructed: the run has
\* failed with the cyclic-dependency error, executeAsync() was not called and
\* no task was started.
C28_CycleStopsTheRun ==
  HasCycle(taskCollection) =>
    /\ phase = "failed"
    /\ thrown = CyclicDependency
    /\ runResult = "failure"
    /\ NothingExecuted

\* A run was stopped by a cycle of three projects beside a project that is
\* not part of it.
C28_Witness ==
  /\ phase = "failed"
  /\ HasCycle(taskCollection)
  /\ Len(cycleChain) = 4
  /\ \E t \in Registered(taskCollection) :
       /\ t \notin Range(cycleChain)
       /\ taskCollection.dependencies[t] = {}
       /\ taskCollection.dependents[t] = <<>>


(***************************************************************************)
(* Claims about the chain of the cyclic-dependency error                   *)
(***************************************************************************)

\* getOrderedTasks() has failed with the cyclic-dependency error.
CycleReported == phase = "failed" /\ thrown = CyclicDependency

\* Each task of the chain depends on the task quoted after it.
ChainFollowsDependencies ==
  \A i \in 1..(Len(cycleChain) - 1) :
    cycleChain[i + 1] \in taskCollection.dependencies[cycleChain[i]]

\* C29 as stated: the chain of the error is the cycle and nothing else: it
\* starts and ends with the same task, no other task is quoted twice, and
\* each task of the chain depends on the next one.
C29_ChainIsTheCycleOnly ==
  CycleReported =>
    /\ Len(cycleChain) >= 2
    /\ cycleChain[1] = cycleChain[Len(cycleChain)]
    /\ \A i, j \in 1..(Len(cycleChain) - 1) : i # j => cycleChain[i] # cycleChain[j]
    /\ ChainFollowsDependencies

\* C29, amended: the chain of the error is the traversal stack reversed: it
\* starts with the task met again, quotes the whole cycle back to that task,
\* then the tasks through which the traversal reached the cycle, each once;
\* each task of the chain depends on the next one.
C29_ChainIsTheReversedStack ==
  CycleReported =>
    /\ Len(cycleChain) >= 2
    /\ Range(cycleChain) \subseteq Registered(taskCollection)
    /\ \E k \in 2..Len(cycleChain) : cycleChain[k] = cycleChain[1]
    /\ \A i, j \in 2..Len(cycleChain) : i # j => cycleChain[i] # cycleChain[j]
    /\ ChainFollowsDependencies

\* The error quoted a cycle of two tasks followed by the task through which
\* the traversal reached it.
C29_Witness ==
  /\ CycleReported
  /\ Len(cycleChain) = 4
  /\ cycleChain[3] = cycleChain[1]
  /\ cycleChain[4] \notin TransitiveDependencies(taskCollection, cycleChain[4])

(***************************************************************************)
(* Claims about the outcome of a bulk command (BulkScriptAction.runAsync)  *)
(***************************************************************************)

\* runAsync() threw before the try block: executeAsync() was not called.
SetupFailed == phase = "failed"

ExecuteAsyncFailed == phase = "done" /\ ~executeAsyncSucceeds(taskRunner)

ExecuteAsyncSucceeded == phase = "done" /\ executeAsyncSucceeds(taskRunner)

RunAsyncFailed == runResult = "failure"

\* The sink, when there is one, holds one record, with the given result.
OneTelemetryRecord(result) ==
  telemetry.enabled =>
    telemetry.log = <<[name |-> action.actionName, result |-> result]>>

\* The sink holds one record with the given result when there is a sink and
\* the command is a built-in one, and no record otherwise.
OneTelemetryRecordOfBuiltIn(result) ==
  telemetry.log =
    IF telemetry.enabled /\ action.actionName \in BuiltInCommandNames
    THEN <<[name |-> action.actionName, result |-> result]>>
    ELSE <<>>

HasRebuiltDependency(t) ==
  \E d \in taskCollection.dependencies[t] :
    taskCollection.status[d] \in {Success, SuccessWithWarning}

\* The step is the end of task t, with a result that the pipeline of its
\* builder gives for these inputs: the step is
\* TaskBuilt(t, restored, lastProjectBuildDeps, projectBuildDeps, result),
\* result being the new status of t.
BuiltWith(t, restored, lastProjectBuildDeps, projectBuildDeps) ==
  /\ phase = "running"
  /\ hasTask(taskCollection, t)
  /\ taskCollection.status[t] = Executing
  /\ taskCollection'.status[t] # Executing
  /\ restored => hasProjectBuildCache(TRUE, projectBuildDeps)
  /\ taskCollection'.status[t] \in
       pipelineResults(restored, lastProjectBuildDeps, projectBuildDeps,
                       isIncrementalBuildAllowed[t])

\* The part of C22 about a run without the option: a task with a rebuilt
\* dependency is not skipped, whatever its prior and its current state.
NotSkippedAfterRebuild(t) ==
  (~taskRunner.changedProjectsOnly /\ HasRebuiltDependency(t)) =>
    taskCollection'.status[t] # Skipped

\* The option is set and has effect: incremental builds are allowed.
ChangedProjectsOnlyInEffect ==
  /\ action.changedProjectsOnly
  /\ action.isIncrementalBuildAllowed
  /\ taskRunner.changedProjectsOnly

\* C22 as stated: without the option, a task with a dependency rebuilt in
\* this run is never Skipped; with the option, such a task is Skipped
\* whenever its command and hashes match the prior state.
C22_ChangedProjectsOnly ==
  [][\A t \in Names, restored \in BOOLEAN :
       \A lastProjectBuildDeps \in LastProjectBuildDeps,
          projectBuildDeps \in CurrentProjectBuildDeps :
         BuiltWith(t, restored, lastProjectBuildDeps, projectBuildDeps) =>
           /\ NotSkippedAfterRebuild(t)
           /\ (/\ ChangedProjectsOnlyInEffect
               /\ HasRebuiltDependency(t)
               /\ isPackageUnchanged(lastProjectBuildDeps, projectBuildDeps))
              => taskCollection'.status[t] = Skipped]_vars

\* C22, amended: without the option, a task with a dependency rebuilt in
\* this run is never Skipped; with the option, such a task is Skipped
\* whenever its command and hashes match the prior state and no cache
\* restore succeeded, and FromCache when the restore succeeded.
C22_ChangedProjectsOnlyUnlessRestored ==
  [][\A t \in Names, restored \in BOOLEAN :
       \A lastProjectBuildDeps \in LastProjectBuildDeps,
          projectBuildDeps \in CurrentProjectBuildDeps :
         BuiltWith(t, restored, lastProjectBuildDeps, projectBuildDeps) =>
           /\ NotSkippedAfterRebuild(t)
           /\ (/\ ChangedProjectsOnlyInEffect
               /\ HasRebuiltDependency(t)
               /\ isPackageUnchanged(lastProjectBuildDeps, projectBuildDeps))
              => taskCollection'.status[t] = IF restored THEN FromCache ELSE Skipped]_vars

\* With the option in effect, a task was skipped although one of its
\* dependencies was rebuilt in this run.
C22_Witness ==
  /\ ChangedProjectsOnlyInEffect
  /\ \E t \in Range(taskCollection.tasks) :
       /\ taskCollection.status[t] = Skipped
       /\ HasRebuiltDependency(t)

\* Without the option, the builder of a task lost the permission to skip
\* when its dependency was rebuilt, and the task was built.
RebuiltAfterDependency ==
  /\ action.isIncrementalBuildAllowed
  /\ ~taskRunner.changedProjectsOnly
  /\ \E t \in Range(taskCollection.tasks) :
       /\ taskCollection.status[t] = Success
       /\ ~isIncrementalBuildAllowed[t]
       /\ HasRebuiltDependency(t)

(***************************************************************************)
(* Claims about the output of the tasks (specification OutputSpec)         *)
(***************************************************************************)

\* The chunks of one task in the human-facing stream are one segment.
OneSegment(t) ==
  \A i, k \in DOMAIN output.collator.stream :
    (i < k /\ output.collator.stream[i].task = t /\ output.collator.stream[k].task = t) =>
      \A j \in i..k : output.collator.stream[j].task = t

\* C31: at most one task is the foreground writer of the human-facing
\* stream; the chunks of any other task are buffered, and nothing of the
\* foreground writer is; in the stream the chunks of a task are one
\* segment, so that no chunk of a task lies between two chunks of a segment
\* of another task.
C31_OutputSegmentation ==
  /\ output.collator.activeWriter \in DOMAIN output.pc \cup {NoWriter}
  /\ \A t \in DOMAIN output.pc :
       /\ output.collator.activeWriter = t =>
            /\ output.collator.isOpen[t]
            /\ output.collator.bufferedChunks[t] = <<>>
       /\ output.collator.bufferedChunks[t] # <<>> =>
            /\ output.collator.activeWriter \notin {t, NoWriter}
       /\ OneSegment(t)

\* Task a wrote two chunks while task b was the foreground writer; they
\* are in its buffer.
C31_Witness ==
  /\ output.collator.activeWriter = "b"
  /\ output.collator.stream # <<>>
  /\ Len(output.collator.bufferedChunks["a"]) = 2

\* The two chunks of task a were flushed as one segment after the chunk of
\* task b.
FlushedAfterForeground ==
  /\ Len(output.collator.stream) = 3
  /\ output.collator.stream[1].task = "b"
  /\ output.collator.stream[2].task = "a"
  /\ output.collator.stream[3].task = "a"

\* The texts of a sequence of chunks, one after the other.
RECURSIVE ConcatTexts(_)
ConcatTexts(chunks) ==
  IF chunks = <<>> THEN <<>> ELSE Head(chunks).text \o ConcatTexts(Tail(chunks))

\* A text with every CR LF replaced by LF.
RECURSIVE CrLfToLf(_)
CrLfToLf(text) ==
  IF text = <<>> THEN <<>>
  ELSE IF Len(text) >= 2 /\ text[1] = CR /\ text[2] = LF
  THEN <<LF>> \o CrLfToLf(SubSeq(text, 3, Len(text)))
  ELSE <<Head(text)>> \o CrLfToLf(Tail(text))

WithTrailingNewline(text) ==
  IF text = <<>> \/ text[Len(text)] = LF THEN text ELSE Append(text, LF)

IsPrefix(s, t) == Len(s) <= Len(t) /\ s = SubSeq(t, 1, Len(s))

\* The text that reached the project log and the summarizer.
Transcript(t) == ConcatTexts(output.transcript[t])

\* What the task wrote, newlines normalized.
NormalizedOutput(t) == CrLfToLf(ConcatTexts(output.written[t]))

PipelineEnded(t) == output.pc[t] # "executing"

\* C32: the transcript of a task whose pipeline has ended is the
\* concatenation, in the order written, of the chunks the task wrote, with
\* CR LF normalized to LF and a trailing newline ensured, whatever the other
\* tasks wrote in between.
C32_TranscriptDeterminism ==
  \A t \in DOMAIN output.pc :
    PipelineEnded(t) => Transcript(t) = WithTrailingNewline(NormalizedOutput(t))

\* What holds of the code: nothing is duplicated or reordered, the
\* transcript is at any time a prefix of what the task wrote, normalized, and
\* it is the whole of it with the trailing newline once
\* normalizeNewlineTransform was closed.
TranscriptOfClosedTransform ==
  \A t \in DOMAIN output.pc :
    /\ output.transformIsOpen[t] => IsPrefix(Transcript(t), NormalizedOutput(t))
    /\ ~output.transformIsOpen[t] =>
         Transcript(t) = WithTrailingNewline(NormalizedOutput(t))

\* The command of task b wrote an incomplete line and exited with a code
\* other than zero, while task a wrote too: the transcript of b has no
\* trailing newline.
NoTrailingNewlineAfterFailure ==
  /\ output.pc["b"] = NonZeroExit
  /\ output.written["a"] # <<>>
  /\ Transcript("b") = <<LF, "y">>

\* C34: on every path of a task (FromCache, Skipped, empty command, command
\* closed, exit code other than zero, exception) the output writer of the
\* task is closed once the pipeline has ended: what was held back is
\* flushed, the trailing newline is emitted and the project log is closed.
C34_WriterAlwaysClosed ==
  \A t \in DOMAIN output.pc :
    PipelineEnded(t) =>
      /\ ~output.transformIsOpen[t]
      /\ ~output.pendingCr[t]
      /\ ~output.incompleteLine[t]
      /\ ~output.projectLogIsOpen[t]

\* What holds of the code: the project log is closed on every path, and the
\* rest is closed when the command was closed with exit code zero.
ProjectLogAlwaysClosed ==
  \A t \in DOMAIN output.pc :
    /\ PipelineEnded(t) => ~output.projectLogIsOpen[t]
    /\ output.pc[t] = "CommandClosed" =>
         /\ ~output.transformIsOpen[t]
         /\ ~output.pendingCr[t]
         /\ ~output.incompleteLine[t]

\* The command of task a wrote a chunk that ends with a carriage return and
\* exited with a code other than zero: the transform still holds it.
HeldBackAfterFailure ==
  /\ output.pc["a"] = NonZeroExit
  /\ output.transformIsOpen["a"]
  /\ output.pendingCr["a"]

SelectKind(chunks, kind) == SelectSeq(chunks, LAMBDA chunk : chunk.kind = kind)

\* The chunks of a task the collator received, in order: those of the
\* human-facing stream, then those still buffered.
CollatedChunksOf(t) ==
  LET ofTask == SelectSeq(output.collator.stream, LAMBDA chunk : chunk.task = t)
  IN [i \in DOMAIN ofTask |-> [kind |-> ofTask[i].kind, text |-> ofTask[i].text]]
       \o output.collator.bufferedChunks[t]

\* C33: in quiet mode no Stdout chunk of a task reaches the collated stream
\* while every Stderr chunk does; without quiet mode every chunk does; in
\* both modes every chunk the task wrote reaches the transcript with its
\* kind.
C33_QuietMode ==
  \A t \in DOMAIN output.pc :
    /\ output.quietMode =>
         CollatedChunksOf(t) = SelectKind(output.transcript[t], Stderr)
    /\ ~output.quietMode => CollatedChunksOf(t) = output.transcript[t]
    /\ Len(output.transcript[t]) >= Len(output.written[t])
    /\ \A i \in DOMAIN output.written[t] :
         output.transcript[t][i].kind = output.written[t][i].kind

\* In quiet mode task a wrote to stdout and to stderr, and what it wrote to
\* stderr is on the human-facing stream.
C33_Witness ==
  /\ output.quietMode
  /\ SelectKind(output.written["a"], Stdout) # <<>>
  /\ SelectKind(output.written["a"], Stderr) # <<>>
  /\ \E i \in DOMAIN output.collator.stream :
       /\ output.collator.stream[i].task = "a"
       /\ output.collator.stream[i].kind = Stderr

(***************************************************************************)
(* Specification of the hard links of FileSystem                           *)
(***************************************************************************)

FileSystemInit ==
  /\ taskCollection = NewTaskCollection
  /\ phase = "fileSystem"
  /\ thrown = NoError
  /\ cycleChain = <<>>
  /\ buildQueue = <<>>
  /\ rushConfiguration = NoConfiguration
  /\ action = NoAction
  /\ taskRunner = NoTaskRunner
  /\ runResult = "pending"
  /\ projectBuilder = NoProjectBuilder
  /\ isIncrementalBuildAllowed = <<>>
  /\ telemetry = NoTelemetry
  /\ afterTaskCalls = <<>>
  /\ output = NoOutput
  /\ \E fs \in FileSystems :
       fileSystem = [folders |-> fs.folders, inode |-> fs.inode, call |-> NoCall]
  /\ environmentConfiguration = NewEnvironmentConfiguration

fileSystemUnchanged ==
  UNCHANGED <<collectionVars, rushConfiguration, action, taskRunner, runResult,
              projectBuilder, isIncrementalBuildAllowed, afterTaskVars,
              output, environmentConfiguration>>

\* The file system after a call, with the call: its options, the file
\* system before it and the error it threw.
afterCall(fs, options, result) ==
  [folders |-> result.fs.folders, inode |-> result.fs.inode,
   call |-> [options |-> options, before |-> fs.inode, error |-> result.error]]

CreateHardLink(options) ==
  /\ fileSystem.call = NoCall
  /\ fileSystem' = afterCall(fileSystem, options, createHardLink(fileSystem, options))
  /\ fileSystemUnchanged

CreateHardLinkAsync(options) ==
  /\ fileSystem.call = NoCall
  /\ fileSystem' = afterCall(fileSystem, options, createHardLinkAsync(fileSystem, options))
  /\ fileSystemUnchanged

FileSystemNext ==
  \/ \E options \in CreateLinkOptions : CreateHardLink(options)
  \/ \E options \in CreateLinkOptions : CreateHardLinkAsync(options)

FileSystemSpec == FileSystemInit /\ [][FileSystemNext]_vars

\* A call of createHardLink whose newLinkPath and linkTargetPath both existed.
LinkedOverExisting(behavior) ==
  /\ fileSystem.call # NoCall
  /\ fileSystem.call.options.alreadyExistsBehavior = behavior
  /\ fileSystem.call.before[fileSystem.call.options.newLinkPath] # NoInode
  /\ fileSystem.call.before[fileSystem.call.options.linkTargetPath] # NoInode

Untouched == fileSystem.inode = fileSystem.call.before

\* C35: when newLinkPath and linkTargetPath exist, createHardLink with
\* Overwrite returns with newLinkPath a hard link to linkTargetPath; with
\* Ignore it returns with the existing file untouched; with Error or no
\* option it fails with the existing file untouched.
C35_CreateHardLinkAlreadyExists ==
  /\ LinkedOverExisting(Overwrite) =>
       /\ fileSystem.call.error = NoError
       /\ fileSystem.inode[fileSystem.call.options.newLinkPath] # NoInode
       /\ fileSystem.inode[fileSystem.call.options.newLinkPath] =
            fileSystem.call.before[fileSystem.call.options.linkTargetPath]
  /\ LinkedOverExisting(Ignore) => fileSystem.call.error = NoError /\ Untouched
  /\ LinkedOverExisting(Error) \/ LinkedOverExisting(Unspecified) =>
       fileSystem.call.error = EEXIST /\ Untouched

\* What holds of the code: Ignore and Error as claimed; with Overwrite the
\* call returns with the file at newLinkPath removed and no link made.
OverwriteOnlyRemoves ==
  /\ LinkedOverExisting(Overwrite) =>
       /\ fileSystem.call.error = NoError
       /\ fileSystem.inode =
            [fileSystem.call.before EXCEPT ![fileSystem.call.options.newLinkPath] = NoInode]
  /\ LinkedOverExisting(Ignore) => fileSystem.call.error = NoError /\ Untouched
  /\ LinkedOverExisting(Error) \/ LinkedOverExisting(Unspecified) =>
       fileSystem.call.error = EEXIST /\ Untouched

\* Overwrite over an existing file that is another file than the target.
OverwrittenAway ==
  /\ LinkedOverExisting(Overwrite)
  /\ fileSystem.call.options.newLinkPath # fileSystem.call.options.linkTargetPath
  /\ fileSystem.call.before[fileSystem.call.options.newLinkPath] #
       fileSystem.call.before[fileSystem.call.options.linkTargetPath]
  /\ fileSystem.inode[fileSystem.call.options.newLinkPath] = NoInode

\* C36: with ignoreDependencyOrder false, for every to-set and from-set, a
\* registered task depends on exactly the registered tasks that its project
\* lists as local dependencies.
C36_EdgeCompleteness ==
  (TasksRegistered /\ ~action.ignoreDependencyOrder) =>
    \A t \in Registered(taskCollection) :
      taskCollection.dependencies[t] =
        rushConfiguration.localDependencyProjects[t] \cap Registered(taskCollection)

\* What holds of the code: every task edge is a local-dependency edge
\* between registered projects; the edges of a project of the to-closure are
\* complete, and a project selected by the from-closure only has the edges
\* to the projects of the from-closure.
EdgesOfClosures ==
  (TasksRegistered /\ ~action.ignoreDependencyOrder) =>
    LET g == rushConfiguration.localDependencyProjects
        up == UpstreamClosure(g, Range(action.toProjects))
        down == DownstreamClosure(g, Range(action.fromProjects))
    IN \A t \in Registered(taskCollection) :
         taskCollection.dependencies[t] =
           IF action.toProjects = <<>> /\ action.fromProjects = <<>> THEN g[t]
           ELSE IF t \in up THEN g[t]
           ELSE g[t] \cap down

\* A project selected by the from-set only depends on a project selected by
\* the to-set only, and its task does not depend on the task of that project.
MissingEdge ==
  /\ TasksRegistered
  /\ ~action.ignoreDependencyOrder
  /\ \E t \in Registered(taskCollection) :
       \E d \in rushConfiguration.localDependencyProjects[t] \cap Registered(taskCollection) :
         d \notin taskCollection.dependencies[t]

\* The names of a dependency list that come before the first name that is
\* not registered.
RECURSIVE RegisteredPrefix(_, _)
RegisteredPrefix(c, taskDependencies) ==
  IF taskDependencies = <<>> \/ ~hasTask(c, Head(taskDependencies)) THEN {}
  ELSE {Head(taskDependencies)} \cup RegisteredPrefix(c, Tail(taskDependencies))

\* C37: a call of addDependencies that fails because a name of the list is
\* not registered has added no dependency and no dependent, also for the
\* registered names that come before the name that is not registered.
C37_AddDependenciesAtomic ==
  [][\A taskName \in TaskNames : \A taskDependencies \in SeqsUpTo(TaskNames, MaxDepList) :
       (AddDependencies(taskName, taskDependencies) /\ thrown' = UnknownDependency)
         => /\ taskCollection'.dependencies = taskCollection.dependencies
            /\ taskCollection'.dependents = taskCollection.dependents]_vars

\* What holds of the code: the failing call has added the edges of the
\* registered names that come before the name that is not registered, and a
\* call that fails because the task is not registered has added none.
FailedCallAddsPrefix ==
  [][\A taskName \in TaskNames : \A taskDependencies \in SeqsUpTo(TaskNames, MaxDepList) :
       (AddDependencies(taskName, taskDependencies) /\ thrown' # NoError)
         => IF thrown' = UnknownTask THEN taskCollection' = taskCollection
            ELSE \A t \in Registered(taskCollection) :
                   /\ taskCollection'.dependencies[t] =
                        taskCollection.dependencies[t]
                          \cup (IF t = taskName
                                THEN RegisteredPrefix(taskCollection, taskDependencies)
                                ELSE {})
                   /\ Range(taskCollection'.dependents[t]) =
                        Range(taskCollection.dependents[t])
                          \cup (IF t \in RegisteredPrefix(taskCollection, taskDependencies)
                                THEN {taskName} ELSE {})]_vars

(***************************************************************************)
(* Specification of a collection that is used on: tasks and dependencies   *)
(* are added after getOrderedTasks() has returned, and getOrderedTasks()   *)
(* is called again (TaskCollection has no frozen state: addTask,           *)
(* addDependencies and getOrderedTasks are public and callable in any      *)
(* order).  The phase is "modified" when the collection was changed since  *)
(* the last call of getOrderedTasks().                                     *)
(***************************************************************************)

Ordered == phase \in {"ordered", "modified"}

AddTaskLater(name) ==
  /\ Ordered
  /\ LET r == addTask(taskCollection, name) IN
       /\ taskCollection' = r.collection
       /\ thrown' = r.error
       /\ phase' = IF r.error = NoError THEN "modified" ELSE phase
  /\ UNCHANGED <<cycleChain, buildQueue, runVars>>

AddDependenciesLater(taskName, taskDependencies) ==
  /\ Ordered
  /\ LET r == addDependencies(taskCollection, taskName, taskDependencies) IN
       /\ EdgeCount(r.collection) <= MaxEdges
       /\ taskCollection' = r.collection
       /\ thrown' = r.error
       /\ phase' = IF r.collection # taskCollection THEN "modified" ELSE phase
  /\ UNCHANGED <<cycleChain, buildQueue, runVars>>

GetOrderedTasksAgain ==
  /\ Ordered
  /\ LET r == getOrderedTasks(taskCollection) IN
       /\ taskCollection' = r.collection
       /\ thrown' = r.error
       /\ cycleChain' = r.chain
       /\ buildQueue' = r.buildQueue
       /\ phase' = IF r.error = NoError THEN "ordered" ELSE "failed"
  /\ UNCHANGED runVars

ReuseNext ==
  \/ \E name \in TaskNames : AddTask(name)
  \/ \E taskName \in TaskNames : \E taskDependencies \in SeqsUpTo(TaskNames, MaxDepList) :
       AddDependencies(taskName, taskDependencies)
  \/ GetOrderedTasks
  \/ \E name \in TaskNames : AddTaskLater(name)
  \/ \E taskName \in TaskNames : \E taskDependencies \in SeqsUpTo(TaskNames, MaxDepList) :
       AddDependenciesLater(taskName, taskDependencies)
  \/ GetOrderedTasksAgain

ReuseSpec == Init /\ [][ReuseNext]_vars

\* The critical-path lengths satisfy the recursive definition on the graph
\* as it is.
CriticalPathLengthsFresh ==
  \A t \in Registered(taskCollection) :
    LET cpl == taskCollection.criticalPathLength
        ds == DependentsOf(taskCollection, t)
    IN cpl[t] = IF ds = {} THEN 0 ELSE 1 + MaxOf({cpl[d] : d \in ds})

\* A call of getOrderedTasks() on a collection that was not modified since
\* the last call returns the same order.
SameOrderWithoutModification ==
  [][(phase = "ordered" /\ GetOrderedTasksAgain)
       => (phase' = "ordered" /\ buildQueue' = buildQueue)]_vars

\* C38: after every successful call of getOrderedTasks(), also one that
\* follows addTask or addDependencies calls made after an earlier call, the
\* criticalPathLength of each task satisfies the recursive definition on the
\* graph as it is at the time of the call; and two calls in a row return the
\* same order.
C38_CriticalPathLengthsNeverStale ==
  /\ [](phase = "ordered" => CriticalPathLengthsFresh)
  /\ SameOrderWithoutModification

\* What holds of the code: a length, once computed, is never computed
\* again, whatever is added to the collection.
CriticalPathLengthsMemoized ==
  [][\A t \in Registered(taskCollection) :
       taskCollection.criticalPathLength[t] # Undefined
         => taskCollection'.criticalPathLength[t] = taskCollection.criticalPathLength[t]]_vars

\* Task a was ordered with no dependent, task b was added as its dependent
\* and getOrderedTasks() was called again: a still has the length 0 and
\* comes after b in the queue.
StaleCriticalPathLength ==
  /\ phase = "ordered"
  /\ taskCollection.tasks = <<"a", "b">>
  /\ taskCollection.dependencies["b"] = {"a"}
  /\ taskCollection.criticalPathLength["a"] = 0
  /\ taskCollection.criticalPathLength["b"] = 0
  /\ buildQueue = <<"a", "b">>

\* The last call met a state file that cannot be parsed, for a project with
\* a command to run whose file hashes are known and whose outputs were not
\* restored from the cache.
UnparsableStateFileRun ==
  /\ RunStarted
  /\ projectBuilder.run.lastDepsFile.kind = "unparsable"
  /\ projectBuilder.run.commandToRun # EmptyScript
  /\ projectBuilder.run.analyzerAvailable
  /\ ~projectBuilder.run.restored

\* The command of the last call exited with code zero and wrote nothing to
\* stderr.
ClosedCleanly ==
  /\ CommandClosed
  /\ projectBuilder.run.code = 0
  /\ ~projectBuilder.run.stderr

\* The state file holds the file hashes and the command of the last call.
FreshStateFile ==
  projectBuilder.depsFile =
    DepsFileOf(getProjectBuildDeps([available |-> TRUE, files |-> projectBuilder.files],
                                   projectBuilder.run.commandToRun))

\* C39: a state file that cannot be parsed is treated as "never built": the
\* task is not Skipped and does not fail because of it, the command is run,
\* and after a command that exits with code zero without writing to stderr
\* the task ends in Success with a fresh state file written.
C39_UnparsableStateFile ==
  UnparsableStateFileRun =>
    /\ projectBuilder.run.status # Skipped
    /\ projectBuilder.run.spawned
    /\ ClosedCleanly => projectBuilder.run.status = Success /\ FreshStateFile

\* What holds of the code: the task is not Skipped and the command is run;
\* after a clean exit the state file is written and the task ends in
\* SuccessWithWarning, for the warning line about the state file, or, when
\* the write of the state file throws, in Failure without a fresh state file.
UnparsableStateFileWarns ==
  UnparsableStateFileRun =>
    /\ projectBuilder.run.status # Skipped
    /\ projectBuilder.run.spawned
    /\ ClosedCleanly =>
         IF projectBuilder.run.writeOutcome = "written"
         THEN projectBuilder.run.status = SuccessWithWarning /\ FreshStateFile
         ELSE projectBuilder.run.status = Failure /\ ~FreshStateFile

\* The command ran after a state file that cannot be parsed, exited cleanly,
\* the state file was written, and the task ended in SuccessWithWarning.
WarnedAfterUnparsableStateFile ==
  /\ UnparsableStateFileRun
  /\ ClosedCleanly
  /\ projectBuilder.run.writeOutcome = "written"
  /\ projectBuilder.run.cacheWrite # "false"
  /\ projectBuilder.run.status = SuccessWithWarning

(***************************************************************************)
(* Specification of EnvironmentConfiguration: initialize() and reset() are *)
(* called in any order, each initialize() with the environment of the      *)
(* moment.                                                                 *)
(***************************************************************************)

EnvironmentInit ==
  /\ taskCollection = NewTaskCollection
  /\ phase = "environment"
  /\ thrown = NoError
  /\ cycleChain = <<>>
  /\ buildQueue = <<>>
  /\ rushConfiguration = NoConfiguration
  /\ action = NoAction
  /\ taskRunner = NoTaskRunner
  /\ runResult = "pending"
  /\ projectBuilder = NoProjectBuilder
  /\ isIncrementalBuildAllowed = <<>>
  /\ telemetry = NoTelemetry
  /\ afterTaskCalls = <<>>
  /\ output = NoOutput
  /\ fileSystem = NoFileSystem
  /\ environmentConfiguration = NewEnvironmentConfiguration

environmentUnchanged ==
  UNCHANGED <<collectionVars, rushConfiguration, action, taskRunner, runResult,
              projectBuilder, isIncrementalBuildAllowed, afterTaskVars,
              output, fileSystem>>

Initialize(processEnv, options) ==
  /\ environmentConfiguration' = initialize(environmentConfiguration, processEnv, options)
  /\ environmentUnchanged

Reset ==
  /\ environmentConfiguration' =
       [reset(environmentConfiguration) EXCEPT !.lastCall = "reset", !.threw = FALSE]
  /\ environmentUnchanged

EnvironmentNext ==
  \/ \E processEnv \in ProcessEnvs, doNotNormalizePaths \in BOOLEAN :
       Initialize(processEnv, [doNotNormalizePaths |-> doNotNormalizePaths])
  \/ Reset

EnvironmentSpec == EnvironmentInit /\ [][EnvironmentNext]_vars

\* The value of a getter as the environment of the last initialize() call
\* determines it, a variable that is not set giving the default.
ValueOfEnvironment(getter) ==
  LET processEnv == environmentConfiguration.processEnv
      options == environmentConfiguration.options
      path(name) ==
        IF processEnv[name] = Unset \/ options.doNotNormalizePaths THEN processEnv[name]
        ELSE IF processEnv[name] = "c:/t" THEN "C:/t" ELSE processEnv[name]
  IN CASE getter = "rushTempFolderOverride" -> path("RUSH_TEMP_FOLDER")
       [] getter = "absoluteSymlinks" -> processEnv["RUSH_ABSOLUTE_SYMLINKS"] = "true"
       [] getter = "allowUnsupportedNodeVersion" ->
            processEnv["RUSH_ALLOW_UNSUPPORTED_NODEJS"] = "true"
       [] getter = "pnpmStorePathOverride" -> path("RUSH_PNPM_STORE_PATH")
       [] getter = "rushGlobalFolderOverride" -> getRushGlobalFolderOverride(processEnv)
       [] getter = "buildCacheWriteCredential" -> processEnv["RUSH_BUILD_CACHE_WRITE_CREDENTIAL"]
       [] getter = "gitBinaryPath" -> processEnv["RUSH_GIT_BINARY_PATH"]

\* The variable a getter gives the value of.
VariableOf(getter) ==
  CASE getter = "rushTempFolderOverride" -> "RUSH_TEMP_FOLDER"
    [] getter = "absoluteSymlinks" -> "RUSH_ABSOLUTE_SYMLINKS"
    [] getter = "allowUnsupportedNodeVersion" -> "RUSH_ALLOW_UNSUPPORTED_NODEJS"
    [] getter = "pnpmStorePathOverride" -> "RUSH_PNPM_STORE_PATH"
    [] getter = "rushGlobalFolderOverride" -> "RUSH_GLOBAL_FOLDER"
    [] getter = "buildCacheWriteCredential" -> "RUSH_BUILD_CACHE_WRITE_CREDENTIAL"
    [] getter = "gitBinaryPath" -> "RUSH_GIT_BINARY_PATH"

Initialized ==
  environmentConfiguration.lastCall = "initialize" /\ ~environmentConfiguration.threw

\* C40: after any sequence of initialize() and reset() calls, once
\* initialize() has returned every getter returns the value determined by
\* the environment of that call, a variable that is not set giving the
\* default; after reset(), or after an initialize() that threw for an
\* unknown RUSH_ variable, every getter throws.
C40_ReflectsCurrentEnvironment ==
  \A getter \in Getters :
    IF Initialized
    THEN get(environmentConfiguration, getter) =
           [threw |-> FALSE, value |-> ValueOfEnvironment(getter)]
    ELSE get(environmentConfiguration, getter).threw

\* What holds of the code: the getters throw exactly when the class is not
\* initialized; the fields reset() clears (rushTempFolderOverride) or
\* initialize() always assigns (rushGlobalFolderOverride) are those of the
\* last environment, and so is the field of every variable that is set.
ReflectsVariablesThatAreSet ==
  \A getter \in Getters :
    IF Initialized
    THEN /\ ~get(environmentConfiguration, getter).threw
         /\ getter \in {"rushTempFolderOverride", "rushGlobalFolderOverride"} =>
              get(environmentConfiguration, getter).value = ValueOfEnvironment(getter)
         /\ environmentConfiguration.processEnv[VariableOf(getter)] # Unset =>
              get(environmentConfiguration, getter).value = ValueOfEnvironment(getter)
    ELSE get(environmentConfiguration, getter).threw

\* initialize() returned for an environment without RUSH_ABSOLUTE_SYMLINKS
\* and the getter still gives the true of an earlier environment.
StaleAbsoluteSymlinks ==
  /\ Initialized
  /\ environmentConfiguration.processEnv["RUSH_ABSOLUTE_SYMLINKS"] = Unset
  /\ get(environmentConfiguration, "absoluteSymlinks").value = TRUE

====
